---- MODULE Spec2Model ----
(***************************************************************************)
(* EKZ tariffs: the slot fusion and lookup functions, the tariff           *)
(* coordinators' refresh cycle, and the entities (calendar, current-price  *)
(* and next-change sensors) that derive their state from the published     *)
(* slot list and from one-shot timers of the host.                         *)
(*                                                                         *)
(* Time is an integer number of ticks.  A price is an integer number of    *)
(* 1e-7 CHF/kWh, so that round(x, 6) is a rounding to a multiple of ten.   *)
(* An optional value (Python's None) is a sequence of length 0 or 1.       *)
(***************************************************************************)
EXTENDS Integers, Sequences, FiniteSets, TLC

VARIABLES
    \* ---- inputs and results of the pure functions ----
    p_pc,          \* "off" | "input" | "fused" | "refused" | "found"
    p_slots,       \* the slot list handed to fuse_slots
    p_fused,       \* the result of fuse_slots(p_slots)
    p_refused,     \* the result of fusing p_fused again
    p_intervals,   \* the interval list handed to the lookup functions
    p_now,         \* the instant handed to the lookup functions
    p_cur,         \* the result of _find_current_slot
    p_next,        \* the result of _find_next_boundary
    \* ---- input and result of the API clients' response parsing ----
    a_pc,          \* "off" | "input" | "parsed"
    a_api,         \* "public" | "oauth": the client that parses
    a_resp,        \* the "prices" entries of the upstream response
    a_slots,       \* the slot list the fetch returns
    \* ---- inputs and results of the window statistics ----
    s_pc,          \* "off" | "input" | "bucketed" | "searched" | "sensed"
    s_slots,       \* coordinator.data as the window sensors read it
    s_window,      \* window_minutes
    s_mode,        \* "min" | "max"
    s_prices,      \* the grid bucket_prices returns
    s_res,         \* the result of rolling_window_extreme
    s_now,         \* dt_util.now() as the window sensors read it
    s_value,       \* EkzWindowExtremeSensor.native_value
    s_attrs,       \* EkzWindowExtremeSensor.extra_state_attributes
    s_is_on,       \* EkzInConsecutiveWindowSensor.is_on
    \* ---- the host ----
    now,           \* dt_util.now()
    timers,        \* the pending async_track_point_in_time registrations
    bus,           \* the last event fired on hass.bus at this instant, if any
    store,         \* the stored snapshot ({"slots": [...]}), if any
    \* ---- the config entry and its tariff coordinator ----
    auth_type,     \* "public" | "oauth"
    phase,         \* "off" | "setup" | "first_refresh" | "loaded" |
                   \* "running" | "not_ready" | "unloaded"
    inflight,      \* the refreshes in flight, each as the upstream's answer
                   \* to it: "ok" or one of FetchErrors
    data,          \* coordinator.data: None or a slot list
    last_update_success,
    last_good,     \* the list of the last successful refresh or snapshot
    \* ---- EkzTariffsCalendar ----
    cal_fused,     \* _fused
    cal_events,    \* _events
    cal_unsubs,    \* _unsubs
    cal_sched_at,  \* the now read by the last _schedule_callbacks, if any
    \* ---- EkzCurrentPriceSensor, EkzNextChangeSensor ----
    cur_unsub,     \* _unsub_boundary
    cur_state,     \* the state last written by the current-price sensor
    nxt_state,     \* the state last written by the next-change sensor
    \* ---- inputs and results of the daily statistics ----
    d_pc,          \* "off" | "input" | "bucketed" | "computed" | "sensed"
    d_slots,       \* coordinator.data as the daily-average sensor reads it
    d_now,         \* dt_util.now() as the daily-average sensor reads it
    d_offset,      \* _day_offset: 0 (today) or 1 (tomorrow)
    d_grid,        \* the result of bucket_prices for the sensor's day
    d_stats,       \* the result of daily_stats for the sensor's day
    d_value,       \* _EkzDailyAverageSensor.native_value
    d_attrs,       \* _EkzDailyAverageSensor.extra_state_attributes
    \* ---- the EMS link-status coordinator, its listener and entities ----
    e_check,       \* the status checks in flight, each as the upstream's
                   \* answer to it
    e_data,        \* ems_coordinator.data: None or a dict
    e_success,     \* ems_coordinator.last_update_success
    e_prev,        \* _handle_ems_link_change._previous_status
    e_requested,   \* the listener asked for a tariff refresh at the last
                   \* notification
    e_is_on,       \* the state last written by EkzEmsLinkStatusSensor
    e_url_state,   \* the state last written by EkzEmsLinkingUrlSensor
    \* ---- inputs and result of EkzHoursQuantileSensor ----
    h_pc,          \* "off" | "input" | "sensed"
    h_slots,       \* coordinator.data as the hours-quantile sensor reads it
    h_now,         \* dt_util.now() as the hours-quantile sensor reads it
    h_mode,        \* "cheapest" | "most_expensive"
    h_is_on,       \* EkzHoursQuantileSensor.is_on
    \* ---- the in-window sensor and the daily-average sensor in time ----
    w_upstream,    \* the upstream's schedule of the two days
    in_unsub_update,    \* EkzInConsecutiveWindowSensor._unsub_update
    in_unsub_midnight,  \* EkzInConsecutiveWindowSensor._unsub_midnight
    in_state,      \* the state last written by the in-window sensor
    in_sched_at,   \* when _schedule_next_boundary_update last ran
    avg_unsub_midnight, \* _EkzDailyAverageSensor._unsub_midnight
    avg_state,     \* the state last written by the daily-average sensor
    \* ---- inputs and results of the calendar's lookups ----
    c_pc,          \* "off" | "input" | "listed" | "current"
    c_events,      \* EkzTariffsCalendar._events
    c_range,       \* start_date and end_date of async_get_events
    c_now,         \* dt_util.now() as the event property reads it
    c_out,         \* the result of async_get_events
    c_event,       \* the value of the event property
    \* ---- the OAuth config flow ----
    f_step,        \* "off" | "authorized" | "ems_linking" | "create_entry"
                   \* | "abort"
    f_token,       \* the token the OAuth implementation hands over
    f_answer,      \* the upstream's answer to the link-status check
    f_configured,  \* an entry with the unique id ekz_tariffs_oauth exists
    f_ems_instance_id,  \* self.ems_instance_id
    f_linking_url, \* self.linking_url
    f_entry        \* the data of the entry the flow created

pvars == <<p_pc, p_slots, p_fused, p_refused, p_intervals, p_now, p_cur,
          p_next>>

apivars == <<a_pc, a_api, a_resp, a_slots>>

statvars == <<s_pc, s_slots, s_window, s_mode, s_prices, s_res, s_now,
             s_value, s_attrs, s_is_on>>

dayvars == <<d_pc, d_slots, d_now, d_offset, d_grid, d_stats, d_value,
            d_attrs>>

emsvars == <<e_check, e_data, e_success, e_prev, e_requested, e_is_on,
            e_url_state>>

hourvars == <<h_pc, h_slots, h_now, h_mode, h_is_on>>

wakevars == <<w_upstream, in_unsub_update, in_unsub_midnight, in_state,
             in_sched_at, avg_unsub_midnight, avg_state>>

calqvars == <<c_pc, c_events, c_range, c_now, c_out, c_event>>

flowvars == <<f_step, f_token, f_answer, f_configured, f_ems_instance_id,
             f_linking_url, f_entry>>

othervars == <<dayvars, emsvars, hourvars, wakevars, calqvars, flowvars>>

purevars == <<pvars, apivars, statvars, othervars>>

hostvars == <<now, timers, bus, store>>

coordvars == <<auth_type, phase, inflight, data, last_update_success,
               last_good>>

calvars == <<cal_fused, cal_events, cal_unsubs, cal_sched_at>>

sensorvars == <<cur_unsub, cur_state, nxt_state>>

sysvars == <<hostvars, coordvars, calvars, sensorvars>>

vars == <<purevars, sysvars>>

(***************************************************************************)
(* Bounds                                                                  *)
(***************************************************************************)
\* instants of the pure functions' inputs are 0..MaxT
MaxT == 4
\* the longest slot list handed to fuse_slots
MaxSlots == 3
\* the upstream schedule has NumCells consecutive slots of SlotLen ticks each
NumCells == 2
SlotLen == 2
\* an upstream response has at most MaxItems entries, at instants 0..ApiMaxT
MaxItems == 3
ApiMaxT == 3
\* the hours of a day of the hours-quantile sensor
HoursPerDay == 4
\* the buckets of a day
StatBuckets == 4

(***************************************************************************)
(* Values                                                                  *)
(***************************************************************************)
None == <<>>
Some(x) == <<x>>

\* 0.20, 0.2000004 (0.20 with upstream noise) and 0.30 CHF/kWh
Prices == {2000000, 2000004, 3000000}

\* round(x, 6) keeps six decimals: a multiple of PriceScale units of 1e-7
PriceScale == 10

\* round(x, 6); no price of the model lies half way between two multiples
norm(x) == ((x + (PriceScale \div 2)) \div PriceScale) * PriceScale

TariffSlot(start, end, price) ==
    [start |-> start, end |-> end, price_chf_per_kwh |-> price]

FusedEvent(start, end, price) ==
    [start |-> start, end |-> end, price |-> price]

(***************************************************************************)
(* calendar.py: fuse_slots                                                 *)
(***************************************************************************)
\* the loop body's test: same rounded price and no gap (mutant: the gap is
\* not looked at)
fuse_merges_nogapcheck(cur, s) ==
    norm(s.price_chf_per_kwh) = cur.price

\* mutant: the slot's price is compared as it comes, not rounded
fuse_merges_unrounded(cur, s) ==
    s.price_chf_per_kwh = cur.price /\ s.start = cur.end

fuse_merges(cur, s) ==
    norm(s.price_chf_per_kwh) = cur.price /\ s.start = cur.end

\* mutant: every slot starts an interval of its own
fuse_step_nomerge(st, s) ==
    [cur |-> FusedEvent(s.start, s.end, norm(s.price_chf_per_kwh)),
     fused |-> Append(st.fused, st.cur)]

\* one iteration of `for s in slots[1:]` on the pair (cur, fused)
fuse_step(st, s) ==
    IF fuse_merges(st.cur, s)
    THEN [cur |-> [st.cur EXCEPT !.end = s.end], fused |-> st.fused]
    ELSE [cur |-> FusedEvent(s.start, s.end, norm(s.price_chf_per_kwh)),
          fused |-> Append(st.fused, st.cur)]

RECURSIVE fuse_loop(_, _, _)
fuse_loop(slots, i, st) ==
    IF i > Len(slots) THEN st ELSE fuse_loop(slots, i + 1, fuse_step(st, slots[i]))

fuse_slots(slots) ==
    IF slots = <<>> THEN <<>>
    ELSE LET first == FusedEvent(slots[1].start, slots[1].end,
                                 norm(slots[1].price_chf_per_kwh))
             st == fuse_loop(slots, 2, [cur |-> first, fused |-> <<>>])
         IN Append(st.fused, st.cur)

(***************************************************************************)
(* sensor.py: _find_current_slot, _find_next_boundary                      *)
(***************************************************************************)
\* the membership test of _find_current_slot (mutant: the end is inside)
slot_contains_closed(s, t) == s.start <= t /\ t <= s.end

slot_contains(s, t) == s.start <= t /\ t < s.end

RECURSIVE find_from(_, _, _)
find_from(slots, i, t) ==
    IF i > Len(slots) THEN None
    ELSE IF slot_contains(slots[i], t) THEN Some(slots[i])
    ELSE find_from(slots, i + 1, t)

_find_current_slot(slots, t) == find_from(slots, 1, t)

RECURSIVE next_start_from(_, _, _)
next_start_from(slots, i, t) ==
    IF i > Len(slots) THEN None
    ELSE IF slots[i].start > t THEN Some(slots[i].start)
    ELSE next_start_from(slots, i + 1, t)

\* mutant: the current interval is not looked at
find_next_boundary_startonly(slots, t) == next_start_from(slots, 1, t)

\* mutant: the start of the current interval is taken for its end
find_next_boundary_curstart(slots, t) ==
    LET cur == _find_current_slot(slots, t)
    IN IF cur # None THEN Some(cur[1].start) ELSE next_start_from(slots, 1, t)

_find_next_boundary(slots, t) ==
    LET cur == _find_current_slot(slots, t)
    IN IF cur # None THEN Some(cur[1].end) ELSE next_start_from(slots, 1, t)

(***************************************************************************)
(* The pure functions on bounded inputs                                    *)
(***************************************************************************)
SlotValues ==
    {TariffSlot(s, e, p) : s \in 0..MaxT, e \in 0..MaxT, p \in Prices}

\* the slot model's invariant (api.py sorts a fetch by start; the upstream
\* slots are adjacent or disjoint): every start < end, ascending, no overlap
WellFormed(slots) ==
    /\ \A i \in 1..Len(slots) : slots[i].start < slots[i].end
    /\ \A i \in 1..(Len(slots) - 1) : slots[i].end <= slots[i + 1].start

\* the well-formed lists of at most n slots that start at or after t
RECURSIVE SlotListsFrom(_, _)
SlotListsFrom(t, n) ==
    IF n = 0 THEN {<<>>}
    ELSE {<<>>} \cup
         UNION {{<<s>> \o l : l \in SlotListsFrom(s.end, n - 1)} :
                   s \in {x \in SlotValues : x.start >= t /\ x.start < x.end}}

\* malformed input: two slots of which the second starts inside the first
OverlappingPairs ==
    {<<a, b>> : a \in {x \in SlotValues : x.start < x.end},
                b \in {x \in SlotValues : x.start < x.end}} \cap
    {l \in Seq(SlotValues) : Len(l) = 2 /\ l[1].start <= l[2].start
                                        /\ l[2].start < l[1].end}

SlotLists == SlotListsFrom(0, MaxSlots) \cup OverlappingPairs

Reverse(seq) == [i \in 1..Len(seq) |-> seq[Len(seq) + 1 - i]]

\* no config entry is set up
SysOff ==
    /\ now = 0 /\ timers = {} /\ bus = None /\ store = None
    /\ auth_type = "public" /\ phase = "off" /\ inflight = None
    /\ data = None /\ last_update_success = TRUE
    /\ last_good = None
    /\ cal_fused = <<>> /\ cal_events = <<>> /\ cal_unsubs = <<>>
    /\ cal_sched_at = None
    /\ cur_unsub = None /\ cur_state = None /\ nxt_state = None

\* the API clients have parsed nothing
ApiOff ==
    /\ a_pc = "off" /\ a_api = "public" /\ a_resp = <<>> /\ a_slots = <<>>

\* no window statistics have been computed
StatsOff ==
    /\ s_pc = "off" /\ s_slots = None /\ s_window = 0 /\ s_mode = "min"
    /\ s_prices = <<>> /\ s_res = None /\ s_now = 0
    /\ s_value = None /\ s_attrs = None /\ s_is_on = None

\* no fusion or lookup has been called
FuseOff ==
    /\ p_pc = "off"
    /\ p_slots = <<>>
    /\ p_fused = <<>>
    /\ p_refused = <<>>
    /\ p_intervals = <<>>
    /\ p_now = 0
    /\ p_cur = None
    /\ p_next = None

\* no daily statistics have been computed
DailyOff ==
    /\ d_pc = "off" /\ d_slots = None /\ d_now = 0 /\ d_offset = 0
    /\ d_grid = None /\ d_stats = None /\ d_value = None /\ d_attrs = None

\* no EMS link-status coordinator exists
EmsOff ==
    /\ e_check = None /\ e_data = None /\ e_success = TRUE
    /\ e_prev = None /\ e_requested = FALSE
    /\ e_is_on = None /\ e_url_state = None

\* no hours-quantile sensor has been read
HoursOff ==
    /\ h_pc = "off" /\ h_slots = None /\ h_now = 0 /\ h_mode = "cheapest"
    /\ h_is_on = None

\* no in-window or daily-average sensor is added
WakeOff ==
    /\ w_upstream = <<>> /\ in_unsub_update = None /\ in_unsub_midnight = None
    /\ in_state = None /\ in_sched_at = None
    /\ avg_unsub_midnight = None /\ avg_state = None

\* the calendar answers no lookup
CalqOff ==
    /\ c_pc = "off" /\ c_events = <<>> /\ c_range = None /\ c_now = 0
    /\ c_out = <<>> /\ c_event = None

\* no config flow is in progress
FlowOff ==
    /\ f_step = "off" /\ f_token = None /\ f_answer = None
    /\ f_configured = FALSE /\ f_ems_instance_id = None
    /\ f_linking_url = None /\ f_entry = None

OtherOff == DailyOff /\ EmsOff /\ HoursOff /\ WakeOff /\ CalqOff /\ FlowOff

\* no pure function has been called
PureOff == FuseOff /\ ApiOff /\ StatsOff /\ OtherOff

InitPure ==
    /\ p_pc = "input"
    /\ p_slots \in SlotLists
    /\ p_fused = <<>>
    /\ p_refused = <<>>
    /\ p_intervals = <<>>
    /\ p_now = 0
    /\ p_cur = None
    /\ p_next = None
    /\ ApiOff
    /\ StatsOff
    /\ SysOff
    /\ OtherOff

\* the fused intervals as slots
fuse_as_slots(fused) ==
    [i \in 1..Len(fused) |->
        TariffSlot(fused[i].start, fused[i].end, fused[i].price)]

CallFuse ==
    /\ p_pc = "input"
    /\ p_fused' = fuse_slots(p_slots)
    /\ p_pc' = "fused"
    /\ UNCHANGED <<p_slots, p_refused, p_intervals, p_now, p_cur, p_next>>
    /\ UNCHANGED <<apivars, statvars, sysvars, othervars>>

\* the fused intervals, as slots, are fused again
CallRefuse ==
    /\ p_pc = "fused"
    /\ p_refused' = fuse_slots(fuse_as_slots(p_fused))
    /\ p_pc' = "refused"
    /\ UNCHANGED <<p_slots, p_fused, p_intervals, p_now, p_cur, p_next>>
    /\ UNCHANGED <<apivars, statvars, sysvars, othervars>>

\* the lookups on the fused list, or on the same intervals in reverse order
CallFind ==
    /\ p_pc = "fused"
    /\ \E t \in 0..MaxT, ivs \in {p_fused, Reverse(p_fused)} :
          /\ p_intervals' = ivs
          /\ p_now' = t
          /\ p_cur' = _find_current_slot(ivs, t)
          /\ p_next' = _find_next_boundary(ivs, t)
    /\ p_pc' = "found"
    /\ UNCHANGED <<p_slots, p_fused, p_refused>>
    /\ UNCHANGED <<apivars, statvars, sysvars, othervars>>

NextPure == CallFuse \/ CallRefuse \/ CallFind

SpecPure == InitPure /\ [][NextPure]_vars

(***************************************************************************)
(* api.py: the parsing of a response into a slot list                      *)
(***************************************************************************)
\* an entry of the response's "prices": its timestamps as parse_datetime
\* gives them (None when it gives None) and the value of its first CHF_kWh
\* component (None when it has none)
PriceItem(start, end, value) ==
    [start_timestamp |-> start, end_timestamp |-> end, value |-> value]

\* `continue`: an entry without a timestamp or without a price is left out
item_skipped(item) ==
    \/ item.start_timestamp = None
    \/ item.end_timestamp = None
    \/ item.value = None

\* the loop over data["prices"]
RECURSIVE parse_loop(_, _, _)
parse_loop(items, i, slots) ==
    IF i > Len(items) THEN slots
    ELSE IF item_skipped(items[i]) THEN parse_loop(items, i + 1, slots)
    ELSE parse_loop(items, i + 1,
                    Append(slots, TariffSlot(items[i].start_timestamp[1],
                                             items[i].end_timestamp[1],
                                             items[i].value[1])))

\* s goes behind the slots that do not start later (the sort is stable)
insert_by_start(sorted, s) ==
    LET k == Cardinality({j \in 1..Len(sorted) : sorted[j].start <= s.start})
    IN SubSeq(sorted, 1, k) \o <<s>> \o SubSeq(sorted, k + 1, Len(sorted))

RECURSIVE sort_loop(_, _, _)
sort_loop(slots, i, sorted) ==
    IF i > Len(slots) THEN sorted
    ELSE sort_loop(slots, i + 1, insert_by_start(sorted, slots[i]))

\* mutant: the list is returned in the order of the response
sort_by_start_unsorted(slots) == slots

\* slots.sort(key=lambda s: s.start)
sort_by_start(slots) == sort_loop(slots, 1, <<>>)

\* EkzTariffsApi._parse_tariff_slots
_parse_tariff_slots(items) == sort_by_start(parse_loop(items, 1, <<>>))

\* EkzTariffsOAuthApi.fetch_customer_tariffs, from the response on
fetch_customer_tariffs(items) == sort_by_start(parse_loop(items, 1, <<>>))

\* 0.2000004 CHF/kWh
ItemPrice == 2000004

\* the entries a response is made of: a slot of any extent, or an entry that
\* lacks its start, its end or its price
PriceItems ==
    UNION {{PriceItem(Some(b), Some(e), Some(ItemPrice)) :
               e \in (b + 1)..ApiMaxT} : b \in 0..(ApiMaxT - 1)}
    \cup {PriceItem(None, Some(1), Some(ItemPrice)),
          PriceItem(Some(0), None, Some(ItemPrice)),
          PriceItem(Some(0), Some(1), None)}

RECURSIVE ResponsesOfLen(_)
ResponsesOfLen(n) ==
    IF n = 0 THEN {<<>>}
    ELSE {Append(r, it) : r \in ResponsesOfLen(n - 1), it \in PriceItems}

Responses == UNION {ResponsesOfLen(n) : n \in 0..MaxItems}

InitApi ==
    /\ a_pc = "input"
    /\ a_api \in {"public", "oauth"}
    /\ a_resp \in Responses
    /\ a_slots = <<>>
    /\ FuseOff
    /\ StatsOff
    /\ SysOff
    /\ OtherOff

\* the response is parsed by the client of the entry's authentication type
CallParse ==
    /\ a_pc = "input"
    /\ a_slots' = IF a_api = "oauth" THEN fetch_customer_tariffs(a_resp)
                  ELSE _parse_tariff_slots(a_resp)
    /\ a_pc' = "parsed"
    /\ UNCHANGED <<a_api, a_resp>>
    /\ UNCHANGED <<pvars, statvars, sysvars, othervars>>

NextApi == CallParse

SpecApi == InitApi /\ [][NextApi]_vars

(***************************************************************************)
(* Modules of the integration that the source tree lacks                   *)
(***************************************************************************)
\* utils.py: fuse_slots, as sensor.py imports it: the fusion of the
\* design's section 4.1
utils_fuse_slots(slots) == fuse_slots(slots)

\* storage.py: the snapshot is a plain list of records
slots_to_json(slots) ==
    [i \in 1..Len(slots) |->
        [start |-> slots[i].start, end |-> slots[i].end,
         price |-> slots[i].price_chf_per_kwh]]

slots_from_json(js) ==
    [i \in 1..Len(js) |-> TariffSlot(js[i].start, js[i].end, js[i].price)]

(***************************************************************************)
(* The upstream schedule                                                   *)
(***************************************************************************)
MaxTime == NumCells * SlotLen

\* 0.2000004 (rounds to 0.20) and 0.30 CHF/kWh
UpstreamPrices == {2000004, 3000000}

CellSlot(c, p) == TariffSlot(c * SlotLen, (c + 1) * SlotLen, p)

\* what a fetch can return: for every cell from c on a slot or nothing
RECURSIVE CellListsFrom(_)
CellListsFrom(c) ==
    IF c >= NumCells THEN {<<>>}
    ELSE LET rest == CellListsFrom(c + 1)
         IN rest \cup {<<CellSlot(c, p)>> \o l : p \in UpstreamPrices, l \in rest}

FetchLists == CellListsFrom(0)

\* how a refresh can fail: the fetch raises ClientResponseError with status
\* 400 or with another status, the fetch raises something else, the save raises
FetchErrors == {"http_400", "http_other", "fetch_error", "save_error"}

\* the upstream's answer to a refresh: it is fixed when the request is sent
Answers == {"ok"} \cup FetchErrors

(***************************************************************************)
(* coordinator.py: _async_update_data                                      *)
(***************************************************************************)
Raised == [raised |-> TRUE, value |-> None]

Returned(v) == [raised |-> FALSE, value |-> v]

\* mutant: status 400 is a failure like any other
oauth_update_failure_raises(err) == Raised

\* mutant: a failure returns None instead of raising UpdateFailed
public_update_failure_returns_none(err) == Returned(None)

\* EkzTariffsCoordinator: fetch and save went through
public_update_ok(slots) == Returned(Some(slots))

\* EkzTariffsCoordinator: `except Exception` turns every failure into
\* UpdateFailed
public_update_failure(err) == Raised

oauth_update_ok(slots) == Returned(Some(slots))

\* EkzTariffsOAuthCoordinator: the ClientResponseError clause returns [] for
\* status 400 and otherwise falls off its end, so the coroutine returns None;
\* `except Exception` is reached only by other exceptions
oauth_update_failure(err) ==
    IF err = "http_400" THEN Returned(Some(<<>>))
    ELSE IF err = "http_other" THEN Returned(None)
    ELSE Raised

update_ok(auth, slots) ==
    IF auth = "oauth" THEN oauth_update_ok(slots) ELSE public_update_ok(slots)

update_failure(auth, err) ==
    IF auth = "oauth" THEN oauth_update_failure(err)
    ELSE public_update_failure(err)

(***************************************************************************)
(* sensor.py: the sensors' values                                          *)
(***************************************************************************)
\* `self._coordinator.data or []`
DataOrEmpty(d) == IF d = None THEN <<>> ELSE d[1]

\* EkzCurrentPriceSensor.native_value
current_price_native_value(d, t) ==
    LET cur == _find_current_slot(utils_fuse_slots(DataOrEmpty(d)), t)
    IN IF cur = None THEN None ELSE Some(norm(cur[1].price))

\* EkzNextChangeSensor.native_value
next_change_native_value(d, t) ==
    _find_next_boundary(utils_fuse_slots(DataOrEmpty(d)), t)

(***************************************************************************)
(* statistics.py, which the source tree lacks: bucket_prices and           *)
(* rolling_window_extreme as the design's sections 4.2 and 4.3 give them.  *)
(* An average is the exact quotient num / den.                             *)
(***************************************************************************)
\* bucket_minutes (15 by default), in ticks
BucketMinutes == 2

\* the 24 * 60 minutes of a day, in ticks
DayMinutes == StatBuckets * BucketMinutes

\* local midnight of the day-th day
day_start_of(day) == day * DayMinutes

\* the local date of the instant t
local_date(t) == t \div DayMinutes

WindowResult(start, end, avg) == [start |-> start, end |-> end, avg |-> avg]

\* mutant: only a slot that covers the whole bucket gives it its price
bucket_overlaps_within(s, bstart, bend) == s.start <= bstart /\ s.end >= bend

bucket_overlaps(s, bstart, bend) == s.start < bend /\ s.end > bstart

RECURSIVE first_overlapping(_, _, _, _)
first_overlapping(slots, i, bstart, bend) ==
    IF i > Len(slots) THEN None
    ELSE IF bucket_overlaps(slots[i], bstart, bend)
         THEN Some(slots[i].price_chf_per_kwh)
         ELSE first_overlapping(slots, i + 1, bstart, bend)

\* bucket_prices(slots, day): the grid of N = DayMinutes / BucketMinutes
\* buckets and the day's start
bucket_prices(slots, day) ==
    LET n == DayMinutes \div BucketMinutes
        ds == day_start_of(day)
    IN [prices |-> [k \in 1..n |->
                      first_overlapping(slots, 1,
                                        ds + (k - 1) * BucketMinutes,
                                        ds + k * BucketMinutes)],
        day_start |-> ds]

\* mutant: a window is scored as soon as one of its buckets is present
window_eligible_partial(prices, i, wlen) ==
    \E j \in (i + 1)..(i + wlen) : prices[j] # None

\* the window of wlen buckets from index i (from 0) has no missing bucket
window_eligible(prices, i, wlen) ==
    \A j \in (i + 1)..(i + wlen) : prices[j] # None

RECURSIVE present_sum(_, _, _)
present_sum(prices, lo, hi) ==
    IF lo > hi THEN 0
    ELSE (IF prices[lo] = None THEN 0 ELSE prices[lo][1])
         + present_sum(prices, lo + 1, hi)

\* the arithmetic mean of the window's bucket prices
window_mean(prices, i, wlen) ==
    [num |-> present_sum(prices, i + 1, i + wlen),
     den |-> Cardinality({j \in (i + 1)..(i + wlen) : prices[j] # None})]

mean_less(a, b) == a.num * b.den < b.num * a.den

\* mutant: a candidate as good as the best replaces it
window_improves_nonstrict(mode, score, best) ==
    IF mode = "min" THEN ~mean_less(best, score) ELSE ~mean_less(score, best)

\* strict improvement only replaces the current best
window_improves(mode, score, best) ==
    IF mode = "min" THEN mean_less(score, best) ELSE mean_less(best, score)

\* the scan over the start indices i, i + 1, ..., N - wlen
RECURSIVE window_scan(_, _, _, _, _)
window_scan(prices, wlen, mode, i, best) ==
    IF i > Len(prices) - wlen THEN best
    ELSE IF ~window_eligible(prices, i, wlen)
         THEN window_scan(prices, wlen, mode, i + 1, best)
    ELSE LET score == window_mean(prices, i, wlen)
         IN IF best = None \/ window_improves(mode, score, best[1].avg)
            THEN window_scan(prices, wlen, mode, i + 1,
                             Some([i |-> i, avg |-> score]))
            ELSE window_scan(prices, wlen, mode, i + 1, best)

rolling_window_extreme(prices, day_start, window_minutes, mode) ==
    LET wlen == window_minutes \div BucketMinutes
        best == window_scan(prices, wlen, mode, 0, None)
    IN IF best = None THEN None
       ELSE Some(WindowResult(day_start + best[1].i * BucketMinutes,
                              day_start + best[1].i * BucketMinutes
                                  + wlen * BucketMinutes,
                              best[1].avg))

(***************************************************************************)
(* sensor_window_extreme.py, sensor_in_window.py: the window sensors       *)
(***************************************************************************)
\* round(avg, 6) of the quotient avg.num / avg.den
round6(avg) ==
    ((2 * avg.num + avg.den * PriceScale) \div (2 * avg.den * PriceScale))
        * PriceScale

\* EkzWindowExtremeSensor.native_value
window_extreme_native_value(d, t, day_offset, window_minutes, mode) ==
    LET b == bucket_prices(DataOrEmpty(d), local_date(t) + day_offset)
        res == rolling_window_extreme(b.prices, b.day_start, window_minutes,
                                      mode)
    IN IF res = None THEN None ELSE Some(round6(res[1].avg))

\* EkzWindowExtremeSensor.extra_state_attributes
window_extreme_attributes(d, t, day_offset, window_minutes, mode) ==
    LET b == bucket_prices(DataOrEmpty(d), local_date(t) + day_offset)
        res == rolling_window_extreme(b.prices, b.day_start, window_minutes,
                                      mode)
    IN [date |-> local_date(t) + day_offset,
        window_minutes |-> window_minutes,
        mode |-> mode,
        missing_buckets |->
            Cardinality({k \in 1..Len(b.prices) : b.prices[k] = None}),
        window_start |-> IF res # None THEN Some(res[1].start) ELSE None,
        window_end |-> IF res # None THEN Some(res[1].end) ELSE None]

\* EkzInConsecutiveWindowSensor._stat_mode
stat_mode(mode) == IF mode = "cheapest" THEN "min" ELSE "max"

\* EkzInConsecutiveWindowSensor._get_window_result
get_window_result(d, t, window_minutes, mode) ==
    IF DataOrEmpty(d) = <<>> THEN None
    ELSE LET b == bucket_prices(DataOrEmpty(d), local_date(t))
         IN rolling_window_extreme(b.prices, b.day_start, window_minutes,
                                   stat_mode(mode))

\* EkzInConsecutiveWindowSensor.is_on
in_window_is_on(d, t, window_minutes, mode) ==
    LET window_result == get_window_result(d, t, window_minutes, mode)
    IN IF window_result = None THEN None
       ELSE Some(window_result[1].start <= t /\ t < window_result[1].end)

(***************************************************************************)
(* The window statistics on bounded inputs                                 *)
(***************************************************************************)
\* 0.10 and 0.30 CHF/kWh
StatPrices == {1000000, 3000000}

\* the slot lists of a day: for every bucket from k on a slot or nothing
RECURSIVE DayListsFrom(_)
DayListsFrom(k) ==
    IF k >= StatBuckets THEN {<<>>}
    ELSE LET rest == DayListsFrom(k + 1)
         IN rest \cup
            {<<TariffSlot(k * BucketMinutes, (k + 1) * BucketMinutes, pr)>>
                 \o l : pr \in StatPrices, l \in rest}

InitStats ==
    /\ s_pc = "input"
    /\ s_slots \in {None} \cup {Some(l) : l \in DayListsFrom(0)}
    /\ s_window \in {k * BucketMinutes : k \in 1..StatBuckets}
    /\ s_mode \in {"min", "max"}
    /\ s_prices = <<>>
    /\ s_res = None
    /\ s_now = 0
    /\ s_value = None
    /\ s_attrs = None
    /\ s_is_on = None
    /\ FuseOff
    /\ ApiOff
    /\ SysOff
    /\ OtherOff

CallBucket ==
    /\ s_pc = "input"
    /\ s_prices' = bucket_prices(DataOrEmpty(s_slots), 0).prices
    /\ s_pc' = "bucketed"
    /\ UNCHANGED <<s_slots, s_window, s_mode, s_res, s_now, s_value, s_attrs,
                   s_is_on>>
    /\ UNCHANGED <<pvars, apivars, sysvars, othervars>>

CallRollingWindow ==
    /\ s_pc = "bucketed"
    /\ s_res' = rolling_window_extreme(s_prices, day_start_of(0), s_window,
                                       s_mode)
    /\ s_pc' = "searched"
    /\ UNCHANGED <<s_slots, s_window, s_mode, s_prices, s_now, s_value,
                   s_attrs, s_is_on>>
    /\ UNCHANGED <<pvars, apivars, sysvars, othervars>>

\* the host reads the states of today's window-extreme sensor and of the
\* in-window sensor of the same window and mode at some instant of the day
ReadWindowSensors ==
    /\ s_pc = "searched"
    /\ \E t \in 0..(DayMinutes - 1) :
          /\ s_now' = t
          /\ s_value' = window_extreme_native_value(s_slots, t, 0, s_window,
                                                    s_mode)
          /\ s_attrs' = Some(window_extreme_attributes(s_slots, t, 0,
                                                       s_window, s_mode))
          /\ s_is_on' = in_window_is_on(s_slots, t, s_window,
                                        IF s_mode = "min" THEN "cheapest"
                                        ELSE "most_expensive")
    /\ s_pc' = "sensed"
    /\ UNCHANGED <<s_slots, s_window, s_mode, s_prices, s_res>>
    /\ UNCHANGED <<pvars, apivars, sysvars, othervars>>

NextStats == CallBucket \/ CallRollingWindow \/ ReadWindowSensors

SpecStats == InitStats /\ [][NextStats]_vars

(***************************************************************************)
(* statistics.py, which the source tree lacks: daily_stats as the design's *)
(* section 4.4 gives it.  A quantile is the exact quotient num / den.      *)
(***************************************************************************)
Min2(a, b) == IF a < b THEN a ELSE b

Max2(a, b) == IF a > b THEN a ELSE b

\* the slot intersects the day window [day_start, day_start + 24h)
intersects_day(s, day) ==
    s.start < day_start_of(day) + DayMinutes /\ s.end > day_start_of(day)

\* mutant: a slot weighs with its full duration
day_overlap_full(s, day) == s.end - s.start

\* the overlap duration of the slot with the day window
day_overlap(s, day) ==
    Min2(s.end, day_start_of(day) + DayMinutes)
        - Max2(s.start, day_start_of(day))

\* the sub-sequence of the slots that intersect the day
day_slots(slots, day) == SelectSeq(slots, LAMBDA s : intersects_day(s, day))

RECURSIVE weighted_price_sum(_, _, _)
weighted_price_sum(sel, i, day) ==
    IF i > Len(sel) THEN 0
    ELSE sel[i].price_chf_per_kwh * day_overlap(sel[i], day)
         + weighted_price_sum(sel, i + 1, day)

RECURSIVE overlap_sum(_, _, _)
overlap_sum(sel, i, day) ==
    IF i > Len(sel) THEN 0
    ELSE day_overlap(sel[i], day) + overlap_sum(sel, i + 1, day)

RECURSIVE insert_sorted(_, _)
insert_sorted(x, seq) ==
    IF seq = <<>> \/ x <= Head(seq) THEN <<x>> \o seq
    ELSE <<Head(seq)>> \o insert_sorted(x, Tail(seq))

\* the values in ascending order
RECURSIVE sorted(_)
sorted(seq) ==
    IF seq = <<>> THEN <<>> ELSE insert_sorted(Head(seq), sorted(Tail(seq)))

\* the quantile at the fraction qnum / qden of the ascending values: the
\* value at the index q * (N - 1), interpolated between its two neighbours
quantile(vals, qnum, qden) ==
    LET pos == qnum * (Len(vals) - 1)
        lo == pos \div qden
        hi == Min2(lo + 1, Len(vals) - 1)
    IN [num |-> vals[lo + 1] * qden
                    + (pos % qden) * (vals[hi + 1] - vals[lo + 1]),
        den |-> qden]

DailyStats(avg, min, max, median, q25, q75, slots_count, covered_minutes) ==
    [avg |-> avg, min |-> min, max |-> max, median |-> median, q25 |-> q25,
     q75 |-> q75, slots_count |-> slots_count,
     covered_minutes |-> covered_minutes]

\* mutant: a day without slots has the average 0
empty_stats_zero ==
    DailyStats(Some([num |-> 0, den |-> 1]), None, None, None, None, None,
               0, 0)

\* the statistics of a day that no slot intersects
empty_stats == DailyStats(None, None, None, None, None, None, 0, 0)

daily_stats(slots, day) ==
    LET sel == day_slots(slots, day)
        vals == sorted([i \in 1..Len(sel) |-> sel[i].price_chf_per_kwh])
    IN IF sel = <<>> THEN empty_stats
       ELSE DailyStats(
                Some([num |-> weighted_price_sum(sel, 1, day),
                      den |-> overlap_sum(sel, 1, day)]),
                Some(vals[1]),
                Some(vals[Len(vals)]),
                Some(quantile(vals, 1, 2)),
                Some(quantile(vals, 1, 4)),
                Some(quantile(vals, 3, 4)),
                Len(sel),
                overlap_sum(sel, 1, day))

(***************************************************************************)
(* sensor_daily_average.py: the daily-average sensors                      *)
(***************************************************************************)
\* _EkzDailyAverageSensor.native_value
daily_average_native_value(d, t, day_offset) ==
    LET stats == daily_stats(DataOrEmpty(d), local_date(t) + day_offset)
    IN IF stats.avg = None THEN None ELSE Some(round6(stats.avg[1]))

\* _EkzDailyAverageSensor.extra_state_attributes
daily_average_attributes(d, t, day_offset) ==
    LET stats == daily_stats(DataOrEmpty(d), local_date(t) + day_offset)
    IN [day |-> local_date(t) + day_offset,
        slots_count |-> stats.slots_count,
        covered_minutes |-> stats.covered_minutes,
        min_price_chf_per_kwh |->
            IF stats.min # None THEN Some(norm(stats.min[1])) ELSE None,
        max_price_chf_per_kwh |->
            IF stats.max # None THEN Some(norm(stats.max[1])) ELSE None,
        median_price_chf_per_kwh |->
            IF stats.median # None THEN Some(round6(stats.median[1]))
            ELSE None,
        q25_price_chf_per_kwh |->
            IF stats.q25 # None THEN Some(round6(stats.q25[1])) ELSE None,
        q75_price_chf_per_kwh |->
            IF stats.q75 # None THEN Some(round6(stats.q75[1])) ELSE None]

(***************************************************************************)
(* The daily statistics and the day's grid on bounded inputs               *)
(***************************************************************************)
\* the slots end at most one bucket into the next day
DailyMaxT == DayMinutes + BucketMinutes

DailySlots ==
    {TariffSlot(a, b, pr) : a \in 0..DailyMaxT, b \in 0..DailyMaxT,
                            pr \in StatPrices}

\* the lists of at most two slots, in any order, overlapping or not
DailyLists ==
    {<<>>}
        \cup {<<x>> : x \in {y \in DailySlots : y.start < y.end}}
        \cup {<<x, y>> : x \in {z \in DailySlots : z.start < z.end},
                         y \in {z \in DailySlots : z.start < z.end}}

InitDaily ==
    /\ d_pc = "input"
    /\ d_slots \in {None} \cup {Some(l) : l \in DailyLists}
    /\ d_offset \in {0, 1}
    /\ d_now = 0
    /\ d_grid = None
    /\ d_stats = None
    /\ d_value = None
    /\ d_attrs = None
    /\ FuseOff
    /\ ApiOff
    /\ StatsOff
    /\ EmsOff
    /\ HoursOff
    /\ WakeOff
    /\ CalqOff
    /\ FlowOff
    /\ SysOff

\* the window sensors' grid of the day at d_offset from the first day
CallBucketDay ==
    /\ d_pc = "input"
    /\ d_grid' = Some(bucket_prices(DataOrEmpty(d_slots), d_offset))
    /\ d_pc' = "bucketed"
    /\ UNCHANGED <<d_slots, d_now, d_offset, d_stats, d_value, d_attrs>>
    /\ UNCHANGED <<pvars, apivars, statvars, emsvars, hourvars, wakevars,
                   calqvars, flowvars, sysvars>>

CallDailyStats ==
    /\ d_pc = "bucketed"
    /\ d_stats' = Some(daily_stats(DataOrEmpty(d_slots), d_offset))
    /\ d_pc' = "computed"
    /\ UNCHANGED <<d_slots, d_now, d_offset, d_grid, d_value, d_attrs>>
    /\ UNCHANGED <<pvars, apivars, statvars, emsvars, hourvars, wakevars,
                   calqvars, flowvars, sysvars>>

\* the host reads the state of the daily-average sensor at the first or at
\* the last instant of the first day
ReadDailyAverage ==
    /\ d_pc = "computed"
    /\ \E t \in {0, DayMinutes - 1} :
          /\ d_now' = t
          /\ d_value' = daily_average_native_value(d_slots, t, d_offset)
          /\ d_attrs' = Some(daily_average_attributes(d_slots, t, d_offset))
    /\ d_pc' = "sensed"
    /\ UNCHANGED <<d_slots, d_offset, d_grid, d_stats>>
    /\ UNCHANGED <<pvars, apivars, statvars, emsvars, hourvars, wakevars,
                   calqvars, flowvars, sysvars>>

NextDaily == CallBucketDay \/ CallDailyStats \/ ReadDailyAverage

SpecDaily == InitDaily /\ [][NextDaily]_vars

(***************************************************************************)
(* The EMS link status: api.py check_ems_link_status, coordinator.py       *)
(* EmsLinkStatusCoordinator, the listener of __init__.py and the link      *)
(* entities of sensor.py.  A dict is a record of its possible keys, each   *)
(* absent (None) or present.                                               *)
(***************************************************************************)
EmsDict(error, status, message, link_status, uri) ==
    [error |-> error, status |-> status, message |-> message,
     link_status |-> link_status, linking_process_redirect_uri |-> uri]

\* {}
EmptyDict == EmsDict(None, None, None, None, None)

\* the JSON bodies of a 200 response
EmsBodies ==
    {EmptyDict,
     EmsDict(None, None, None, Some("linked"), None),
     EmsDict(None, None, None, Some("link_required"), None),
     EmsDict(None, None, None, Some("link_required"), Some("uri"))}

\* the upstream's answer to a status check: the request raises (no token, no
\* connection, no JSON), or a response comes with a status and a body
EmsAnswers ==
    {[kind |-> "raises", err |-> e] : e \in {"token", "timeout"}}
        \cup {[kind |-> "response", status |-> 200, body |-> b] :
                 b \in EmsBodies}
        \cup {[kind |-> "response", status |-> st, body |-> "text"] :
                 st \in {401, 500}}

EmsRaised(err) == [raised |-> TRUE, err |-> err]

\* EkzTariffsOAuthApi.check_ems_link_status
check_ems_link_status(answer) ==
    IF answer.kind = "raises" THEN EmsRaised(answer.err)
    ELSE IF answer.status # 200
    THEN Returned(EmsDict(Some(TRUE), Some(answer.status), Some(answer.body),
                          None, None))
    ELSE Returned(answer.body)

\* mutant: the exception of the status check is not caught
ems_async_update_data_raises(answer) == check_ems_link_status(answer)

\* EmsLinkStatusCoordinator._async_update_data
ems_async_update_data(answer) ==
    LET result == check_ems_link_status(answer)
    IN IF result.raised
       THEN Returned(EmsDict(Some(TRUE), None, Some(result.err), None, None))
       ELSE result

\* `if d:` for coordinator.data
ems_truthy(d) == d # None /\ d[1] # EmptyDict

\* mutant: every change of the status asks for a refresh
handle_ems_link_change_anychange(d, previous_status) ==
    IF ems_truthy(d)
    THEN [requested |-> previous_status # d[1].link_status,
          previous_status |-> d[1].link_status]
    ELSE [requested |-> FALSE, previous_status |-> previous_status]

\* _handle_ems_link_change: whether it asks for a tariff refresh, and the
\* _previous_status it leaves
handle_ems_link_change(d, previous_status) ==
    IF ems_truthy(d)
    THEN [requested |-> /\ previous_status = Some("link_required")
                        /\ d[1].link_status # Some("link_required"),
          previous_status |-> d[1].link_status]
    ELSE [requested |-> FALSE, previous_status |-> previous_status]

\* EkzEmsLinkStatusSensor.is_on
ems_link_status_is_on(d) ==
    IF ~ems_truthy(d) THEN None
    ELSE Some(\/ d[1].error = Some(TRUE)
              \/ d[1].link_status = Some("link_required"))

\* EkzEmsLinkStatusSensor.available: the entity's default
ems_link_status_available(d) == TRUE

\* EkzEmsLinkingUrlSensor.native_value
ems_linking_url_native_value(d) ==
    IF ~ems_truthy(d) THEN None
    ELSE IF d[1].link_status = Some("link_required")
    THEN Some("Link required")
    ELSE Some("Linked")

\* EkzEmsLinkingUrlSensor.available
ems_linking_url_available(d) ==
    IF ~ems_truthy(d) THEN FALSE
    ELSE d[1].link_status = Some("link_required")

\* the listeners of the EMS coordinator: the listener of async_setup_entry
\* and the two link entities, which write their states
EmsNotifyListeners(d) ==
    /\ e_requested' = handle_ems_link_change(d, e_prev).requested
    /\ e_prev' = handle_ems_link_change(d, e_prev).previous_status
    /\ e_is_on' = [available |-> ems_link_status_available(d),
                   is_on |-> ems_link_status_is_on(d)]
    /\ e_url_state' = [available |-> ems_linking_url_available(d),
                       native_value |-> ems_linking_url_native_value(d)]

\* the entry is set up with OAuth: the EMS coordinator has its listener, the
\* link entities are added, nothing is published yet
InitEms ==
    /\ e_check = None
    /\ e_data = None
    /\ e_success = TRUE
    /\ e_prev = None
    /\ e_requested = FALSE
    /\ e_is_on = None
    /\ e_url_state = None
    /\ FuseOff
    /\ ApiOff
    /\ StatsOff
    /\ DailyOff
    /\ HoursOff
    /\ WakeOff
    /\ CalqOff
    /\ FlowOff
    /\ SysOff

\* an entity that is added, the check button or the check service asks for a
\* refresh of the EMS coordinator
EmsRequestRefresh ==
    /\ e_check = None
    /\ \E answer \in EmsAnswers : e_check' = Some(answer)
    /\ UNCHANGED <<e_data, e_success, e_prev, e_requested, e_is_on,
                   e_url_state>>
    /\ UNCHANGED <<pvars, apivars, statvars, dayvars, hourvars, wakevars,
                   calqvars, flowvars, sysvars>>

\* the refresh ends: what the coordinator does with the result of
\* _async_update_data
EmsRefreshEnds ==
    /\ e_check # None
    /\ e_check' = None
    /\ LET r == ems_async_update_data(e_check[1])
       IN IF r.raised
          THEN /\ e_success' = FALSE
               /\ e_data' = e_data
               /\ IF e_success
                  THEN EmsNotifyListeners(e_data)
                  ELSE UNCHANGED <<e_prev, e_requested, e_is_on, e_url_state>>
          ELSE /\ e_success' = TRUE
               /\ e_data' = Some(r.value)
               /\ EmsNotifyListeners(Some(r.value))
    /\ UNCHANGED <<pvars, apivars, statvars, dayvars, hourvars, wakevars,
                   calqvars, flowvars, sysvars>>

NextEms == EmsRequestRefresh \/ EmsRefreshEnds

SpecEms == InitEms /\ [][NextEms]_vars

(***************************************************************************)
(* sensor_cheapest_hours.py: EkzHoursQuantileSensor.  An hourly price is   *)
(* the exact quotient num / den.                                           *)
(***************************************************************************)
\* the 60 minutes of an hour, in ticks
HourMinutes == 2

\* the default quantile 0.25, as QuantileNum / QuantileDen
QuantileNum == 1

QuantileDen == 4

HoursDayMinutes == HoursPerDay * HourMinutes

\* dt_util.start_of_local_day(t)
start_of_local_day(t) == (t \div HoursDayMinutes) * HoursDayMinutes

\* t.hour
hour_of(t) == (t % HoursDayMinutes) \div HourMinutes

\* EkzHoursQuantileSensor._get_today_slots
_get_today_slots(slots, t) ==
    SelectSeq(slots, LAMBDA slot :
        /\ slot.start >= start_of_local_day(t)
        /\ slot.start < start_of_local_day(t) + HoursDayMinutes)

RECURSIVE hour_price_sum(_, _, _)
hour_price_sum(slots, i, hour) ==
    IF i > Len(slots) THEN 0
    ELSE (IF hour_of(slots[i].start) = hour
          THEN slots[i].price_chf_per_kwh ELSE 0)
         + hour_price_sum(slots, i + 1, hour)

\* EkzHoursQuantileSensor._calculate_hourly_prices: for every hour in which a
\* slot starts, the mean of the prices of the slots that start in it
_calculate_hourly_prices(slots) ==
    [hour \in {hour_of(slots[i].start) : i \in 1..Len(slots)} |->
        [num |-> hour_price_sum(slots, 1, hour),
         den |-> Cardinality({i \in 1..Len(slots) :
                                 hour_of(slots[i].start) = hour})]]

mean_le(a, b) == a.num * b.den <= b.num * a.den

\* sorted(hourly_prices.values())[index], index from 0
sorted_hourly_at(hourly_prices, index) ==
    LET hour == CHOOSE h \in DOMAIN hourly_prices :
                   /\ Cardinality({g \in DOMAIN hourly_prices :
                          mean_less(hourly_prices[g], hourly_prices[h])})
                        <= index
                   /\ index < Cardinality({g \in DOMAIN hourly_prices :
                          mean_le(hourly_prices[g], hourly_prices[h])})
    IN hourly_prices[hour]

\* EkzHoursQuantileSensor._get_quantile_price; int() cuts off the fraction
_get_quantile_price(hourly_prices, mode) ==
    IF DOMAIN hourly_prices = {} THEN None
    ELSE LET n == Cardinality(DOMAIN hourly_prices)
             index == IF mode = "cheapest"
                      THEN (n * QuantileNum) \div QuantileDen
                      ELSE (n * (QuantileDen - QuantileNum)) \div QuantileDen
         IN Some(sorted_hourly_at(hourly_prices,
                                  Max2(0, Min2(index, n - 1))))

\* EkzHoursQuantileSensor.is_on
hours_quantile_is_on(d, t, mode) ==
    LET slots == DataOrEmpty(d)
        today_slots == _get_today_slots(slots, t)
        hourly_prices == _calculate_hourly_prices(today_slots)
        threshold_price == _get_quantile_price(hourly_prices, mode)
    IN IF slots = <<>> THEN None
       ELSE IF today_slots = <<>> THEN None
       ELSE IF hour_of(t) \notin DOMAIN hourly_prices THEN None
       ELSE IF threshold_price = None THEN None
       ELSE IF mode = "cheapest"
       THEN Some(mean_le(hourly_prices[hour_of(t)], threshold_price[1]))
       ELSE Some(mean_le(threshold_price[1], hourly_prices[hour_of(t)]))

(***************************************************************************)
(* The hours-quantile sensor on bounded inputs                             *)
(***************************************************************************)
\* 0.10, 0.20 and 0.30 CHF/kWh
HourPrices == {1000000, 2000000, 3000000}

\* the slot lists of today: for every hour from k on two slots or nothing
RECURSIVE HourListsFrom(_)
HourListsFrom(k) ==
    IF k >= HoursPerDay THEN {<<>>}
    ELSE LET rest == HourListsFrom(k + 1)
             pairs == {pp \in HourPrices \X HourPrices : pp[1] <= pp[2]}
         IN rest \cup
            {<<TariffSlot(k * HourMinutes, k * HourMinutes + 1, pp[1]),
               TariffSlot(k * HourMinutes + 1, (k + 1) * HourMinutes, pp[2])>>
                 \o l : pp \in pairs, l \in rest}

\* tomorrow's first slot, at the lowest price
TomorrowSlot ==
    TariffSlot(HoursDayMinutes, HoursDayMinutes + 1, 1000000)

InitHours ==
    /\ h_pc = "input"
    /\ h_slots \in {None}
                   \cup {Some(l) : l \in HourListsFrom(0)}
                   \cup {Some(l \o <<TomorrowSlot>>) : l \in HourListsFrom(0)}
    /\ h_mode \in {"cheapest", "most_expensive"}
    /\ h_now = 0
    /\ h_is_on = None
    /\ FuseOff
    /\ ApiOff
    /\ StatsOff
    /\ DailyOff
    /\ EmsOff
    /\ WakeOff
    /\ CalqOff
    /\ FlowOff
    /\ SysOff

\* the host reads the state of the sensor at some instant of today
ReadHoursQuantile ==
    /\ h_pc = "input"
    /\ \E t \in 0..(HoursDayMinutes - 1) :
          /\ h_now' = t
          /\ h_is_on' = hours_quantile_is_on(h_slots, t, h_mode)
    /\ h_pc' = "sensed"
    /\ UNCHANGED <<h_slots, h_mode>>
    /\ UNCHANGED <<pvars, apivars, statvars, dayvars, emsvars, wakevars,
                   calqvars, flowvars, sysvars>>

NextHours == ReadHoursQuantile

SpecHours == InitHours /\ [][NextHours]_vars

(***************************************************************************)
(* One-shot timers: async_track_point_in_time and its unsubscribe handle   *)
(***************************************************************************)
Range(seq) == {seq[i] : i \in 1..Len(seq)}

BoundaryTimer(at) ==
    [owner |-> "current_price", at |-> at, start |-> at, end |-> at,
     price |-> 0]

\* the callback _make_cb(fe.start, fe.end, fe.price), due at fe.start
CalendarTimer(fe) ==
    [owner |-> "calendar", at |-> fe.start, start |-> fe.start,
     end |-> fe.end, price |-> fe.price]

\* mutant: the handle is dropped without being called
clear_boundary_timer_keeps(ts, unsub) == ts

\* EkzCurrentPriceSensor._clear_boundary_timer
clear_boundary_timer(ts, unsub) ==
    IF unsub # None THEN ts \ {unsub[1]} ELSE ts

\* EkzCurrentPriceSensor._schedule_next_boundary_update: the timers and the
\* handle it leaves
schedule_next_boundary_update(ts, unsub, d, t) ==
    LET cleared == clear_boundary_timer(ts, unsub)
        next_boundary == _find_next_boundary(utils_fuse_slots(DataOrEmpty(d)), t)
    IN IF next_boundary = None \/ next_boundary[1] <= t
       THEN [timers |-> cleared, unsub |-> None]
       ELSE [timers |-> cleared \cup {BoundaryTimer(next_boundary[1])},
             unsub |-> Some(BoundaryTimer(next_boundary[1]))]

\* mutant: the handles of the earlier callbacks are forgotten, not called
clear_scheduled_callbacks_forgets(ts, unsubs) == ts

\* EkzTariffsCalendar._clear_scheduled_callbacks
clear_scheduled_callbacks(ts, unsubs) == ts \ Range(unsubs)

\* mutant: a callback is registered for the started intervals too
schedule_callbacks_nofilter(ts, unsubs, fused, t) ==
    [timers |-> clear_scheduled_callbacks(ts, unsubs)
                    \cup {CalendarTimer(fused[i]) : i \in 1..Len(fused)},
     unsubs |-> [i \in 1..Len(fused) |-> CalendarTimer(fused[i])]]

\* EkzTariffsCalendar._schedule_callbacks: the timers and the handles it leaves
schedule_callbacks(ts, unsubs, fused, t) ==
    LET cleared == clear_scheduled_callbacks(ts, unsubs)
        later == SelectSeq(fused, LAMBDA fe : ~(fe.start <= t))
        handles == [i \in 1..Len(later) |-> CalendarTimer(later[i])]
    IN [timers |-> cleared \cup Range(handles), unsubs |-> handles]

\* mutant: the event ends where it starts
CalendarEvent_startonly(fe, idx) ==
    [start |-> fe.start, end |-> fe.start, summary |-> fe.price,
     uid |-> <<fe.start, idx>>]

\* the CalendarEvent built for the idx-th fused interval (idx from 0)
CalendarEvent(fe, idx) ==
    [start |-> fe.start, end |-> fe.end, summary |-> fe.price,
     uid |-> <<fe.start, idx>>]

\* the event data _cb fires; "end" is built from `start` (calendar.py:88)
TariffStartEvent(t) ==
    [type |-> "tariff_start", start |-> t.start, end |-> t.start,
     price_chf_per_kwh |-> t.price]

(***************************************************************************)
(* The listeners of the tariff coordinator, in the order the platforms     *)
(* register them: the calendar, the current-price sensor, the next-change  *)
(* sensor.  d is coordinator.data as the listeners read it.                *)
(***************************************************************************)
NotifyListeners(d) ==
    LET fused == fuse_slots(DataOrEmpty(d))
        cal == schedule_callbacks(timers, cal_unsubs, fused, now)
        cur == schedule_next_boundary_update(cal.timers, cur_unsub, d, now)
    IN \* EkzTariffsCalendar._handle_coordinator_update
       /\ cal_fused' = fused
       /\ cal_events' = [i \in 1..Len(fused) |-> CalendarEvent(fused[i], i - 1)]
       /\ cal_unsubs' = cal.unsubs
       /\ cal_sched_at' = Some(now)
       \* EkzCurrentPriceSensor._handle_coordinator_update
       /\ cur_unsub' = cur.unsub
       /\ timers' = cur.timers
       /\ cur_state' = current_price_native_value(d, now)
       \* EkzNextChangeSensor._handle_update
       /\ nxt_state' = next_change_native_value(d, now)

(***************************************************************************)
(* The config entry: setup, refreshes, timers                              *)
(***************************************************************************)
Init ==
    /\ PureOff
    /\ now = -1
    /\ timers = {}
    /\ bus = None
    /\ store \in {None} \cup {Some(slots_to_json(l)) : l \in FetchLists}
    /\ auth_type \in {"public", "oauth"}
    /\ phase = "setup"
    /\ inflight = None
    /\ data = None
    /\ last_update_success = TRUE
    /\ last_good = None
    /\ cal_fused = <<>>
    /\ cal_events = <<>>
    /\ cal_unsubs = <<>>
    /\ cal_sched_at = None
    /\ cur_unsub = None
    /\ cur_state = None
    /\ nxt_state = None

\* mutant: the first refresh starts without the snapshot being published
SetupLoadSaved_noload ==
    /\ phase = "setup"
    /\ phase' = "first_refresh"
    /\ \E answer \in Answers : inflight' = Some(answer)
    /\ UNCHANGED <<auth_type, data, last_good, last_update_success>>
    /\ UNCHANGED <<hostvars, calvars, sensorvars, purevars>>

\* async_setup_entry: the stored snapshot, if any, is published, then the
\* first refresh starts
SetupLoadSaved ==
    /\ phase = "setup"
    /\ IF store # None
       THEN /\ data' = Some(slots_from_json(store[1]))
            /\ last_good' = Some(slots_from_json(store[1]))
       ELSE UNCHANGED <<data, last_good>>
    /\ phase' = "first_refresh"
    /\ \E answer \in Answers : inflight' = Some(answer)
    /\ UNCHANGED <<auth_type, last_update_success>>
    /\ UNCHANGED <<hostvars, calvars, sensorvars, purevars>>

\* what calls coordinator.async_request_refresh(): the daily schedule, the
\* refresh service, the refresh button and, with OAuth, the EMS-link listener
RefreshTriggers(auth) ==
    {"schedule", "service", "button"} \cup
    (IF auth = "oauth" THEN {"ems_link"} ELSE {})

\* mutant: a request starts a refresh also while one is in flight
RequestRefresh_unserialised ==
    /\ phase = "running"
    /\ Len(inflight) < 2
    /\ \E trigger \in RefreshTriggers(auth_type), answer \in Answers :
          inflight' = Append(inflight, answer)
    /\ UNCHANGED <<auth_type, phase, data, last_update_success, last_good>>
    /\ UNCHANGED <<hostvars, calvars, sensorvars, purevars>>

\* a trigger requests a refresh: one starts unless one is in flight (the
\* host's async_request_refresh drops a request made during a refresh)
RequestRefresh ==
    /\ phase = "running"
    /\ inflight = None
    /\ \E trigger \in RefreshTriggers(auth_type), answer \in Answers :
          inflight' = Append(inflight, answer)
    /\ UNCHANGED <<auth_type, phase, data, last_update_success, last_good>>
    /\ UNCHANGED <<hostvars, calvars, sensorvars, purevars>>

\* what the coordinator does with the result r of _async_update_data
FinishRefresh(r) ==
    /\ inflight' = None
    /\ IF r.raised
       THEN /\ data' = data
            /\ last_update_success' = FALSE
            /\ phase' = IF phase = "first_refresh" THEN "not_ready" ELSE phase
            /\ IF phase = "running" /\ last_update_success
               THEN NotifyListeners(data) /\ UNCHANGED bus
               ELSE UNCHANGED <<now, timers, bus, calvars, sensorvars>>
       ELSE /\ data' = r.value
            /\ last_update_success' = TRUE
            /\ phase' = IF phase = "first_refresh" THEN "loaded" ELSE phase
            /\ IF phase = "running"
               THEN NotifyListeners(r.value) /\ UNCHANGED bus
               ELSE UNCHANGED <<now, timers, bus, calvars, sensorvars>>
    /\ UNCHANGED <<auth_type, purevars>>

\* mutant: the fetched list is published and not saved
RefreshReturns_nosave ==
    /\ inflight = Some("ok")
    /\ \E slots \in FetchLists :
          /\ last_good' = Some(slots)
          /\ FinishRefresh(update_ok(auth_type, slots))
    /\ UNCHANGED <<now, store>>

\* the fetch returns a slot list and the snapshot is saved
RefreshReturns ==
    /\ inflight = Some("ok")
    /\ \E slots \in FetchLists :
          /\ store' = Some(slots_to_json(slots))
          /\ last_good' = Some(slots)
          /\ FinishRefresh(update_ok(auth_type, slots))
    /\ UNCHANGED now

\* the fetch or the save raises
RefreshRaises ==
    /\ inflight # None
    /\ inflight[1] \in FetchErrors
    /\ FinishRefresh(update_failure(auth_type, inflight[1]))
    /\ UNCHANGED <<now, store, last_good>>

\* async_forward_entry_setups: the entities are added, and each runs its
\* update handler once
AddEntities ==
    /\ phase = "loaded"
    /\ phase' = "running"
    /\ NotifyListeners(data)
    /\ UNCHANGED <<now, bus, store, auth_type, inflight, data,
                   last_update_success, last_good, purevars>>

\* a calendar callback is due: _cb fires the tariff_start event
CalendarCallbackFires ==
    /\ \E t \in timers :
          /\ t.owner = "calendar"
          /\ t.at <= now
          /\ timers' = timers \ {t}
          /\ bus' = Some(TariffStartEvent(t))
    /\ UNCHANGED <<now, store, coordvars, calvars, sensorvars, purevars>>

\* mutant: _on_boundary writes the state and schedules nothing
BoundaryFires_norearm ==
    /\ \E t \in timers :
          /\ t.owner = "current_price"
          /\ t.at <= now
          /\ cur_state' = current_price_native_value(data, now)
          /\ timers' = timers \ {t}
          /\ cur_unsub' = None
    /\ UNCHANGED <<now, bus, store, coordvars, calvars, nxt_state, purevars>>

\* the boundary timer is due: _on_boundary writes the state and schedules
\* the next boundary.  Once the entity is removed the host either ignores the
\* state write or raises from it, and then nothing more is scheduled.
BoundaryFires ==
    /\ \E t \in timers :
          /\ t.owner = "current_price"
          /\ t.at <= now
          /\ LET s == schedule_next_boundary_update(timers \ {t}, cur_unsub,
                                                    data, now)
             IN IF phase = "unloaded"
                THEN /\ cur_state' = cur_state
                     /\ \/ timers' = s.timers /\ cur_unsub' = s.unsub
                        \/ timers' = timers \ {t} /\ cur_unsub' = cur_unsub
                ELSE /\ cur_state' = current_price_native_value(data, now)
                     /\ timers' = s.timers
                     /\ cur_unsub' = s.unsub
    /\ UNCHANGED <<now, bus, store, coordvars, calvars, nxt_state, purevars>>

\* async_unload_entry: the platforms are unloaded and the entities removed;
\* each entity's async_on_remove callback takes its listener off the
\* coordinator, and no entity has a hook that cancels its timers
UnloadEntry ==
    /\ phase = "running"
    /\ phase' = "unloaded"
    /\ UNCHANGED <<auth_type, inflight, data, last_update_success, last_good>>
    /\ UNCHANGED <<hostvars, calvars, sensorvars, purevars>>

\* time passes; the host runs every due callback before
Tick ==
    /\ phase # "off"
    /\ now < MaxTime
    /\ \A t \in timers : t.at > now
    /\ now' = now + 1
    /\ bus' = None
    /\ UNCHANGED <<timers, store, coordvars, calvars, sensorvars, purevars>>

Next ==
    \/ SetupLoadSaved
    \/ RequestRefresh
    \/ RefreshReturns
    \/ RefreshRaises
    \/ AddEntities
    \/ CalendarCallbackFires
    \/ BoundaryFires
    \/ UnloadEntry
    \/ Tick

Spec == Init /\ [][Next]_vars

(***************************************************************************)
(* sensor_in_window.py, sensor_daily_average.py, sensor_window_extreme.py  *)
(* in time: the boundary and midnight wake-ups of the in-window sensor and *)
(* the midnight wake-up of a daily-average sensor.  utils.py, which the    *)
(* source tree lacks, gives next_midnight: the start of the local day      *)
(* after the instant's.                                                    *)
(***************************************************************************)
\* next_midnight(now): the following local midnight
next_midnight(t) == day_start_of(local_date(t) + 1)

\* the callback an entity registers with async_track_point_in_time
WakeTimer(owner, at) ==
    [owner |-> owner, at |-> at, start |-> at, end |-> at, price |-> 0]

\* _clear_midnight_timer, and the cancellation that opens
\* _schedule_midnight_update of the daily-average and window-extreme sensors
clear_midnight_timer(ts, unsub) ==
    IF unsub # None THEN ts \ {unsub[1]} ELSE ts

\* _schedule_midnight_update: the timers and the handle it leaves
schedule_midnight_update(ts, unsub, owner, t) ==
    LET cleared == clear_midnight_timer(ts, unsub)
        when == next_midnight(t)
    IN [timers |-> cleared \cup {WakeTimer(owner, when)},
        unsub |-> Some(WakeTimer(owner, when))]

\* EkzInConsecutiveWindowSensor._clear_boundary_timer
in_clear_boundary_timer(ts, unsub) ==
    IF unsub # None THEN ts \ {unsub[1]} ELSE ts

\* mutant: only the window's start is a boundary
in_next_boundary_startonly(window_result, t) ==
    IF t < window_result.start THEN Some(window_result.start) ELSE None

\* the boundary _schedule_next_boundary_update picks: the window's start or
\* end, whichever is next
in_next_boundary(window_result, t) ==
    IF t < window_result.start THEN Some(window_result.start)
    ELSE IF t < window_result.end THEN Some(window_result.end)
    ELSE None

\* _window_minutes of the sensor: two buckets
WakeWindow == 2 * BucketMinutes

\* EkzInConsecutiveWindowSensor._schedule_next_boundary_update: the timers
\* and the handle it leaves
in_schedule_next_boundary_update(ts, unsub, d, t) ==
    LET cleared == in_clear_boundary_timer(ts, unsub)
        window_result == get_window_result(d, t, WakeWindow, "cheapest")
        next_boundary == IF window_result = None THEN None
                         ELSE in_next_boundary(window_result[1], t)
    IN IF next_boundary # None /\ next_boundary[1] > t
       THEN [timers |-> cleared
                 \cup {WakeTimer("in_window_boundary", next_boundary[1])},
             unsub |-> Some(WakeTimer("in_window_boundary",
                                      next_boundary[1]))]
       ELSE [timers |-> cleared, unsub |-> None]

\* the instants of the two days
WakeMaxT == 2 * DayMinutes

\* a day's schedule: nothing, or a price for every bucket of the day, the
\* low price in no bucket or in one run of buckets as long as the window
WakeDays ==
    {l \in DayListsFrom(0) :
        \/ l = <<>>
        \/ /\ Len(l) = StatBuckets
           /\ LET low == {i \in 1..Len(l) :
                              \A pr \in StatPrices :
                                  l[i].price_chf_per_kwh <= pr}
                  n == WakeWindow \div BucketMinutes
              IN \/ low = {}
                 \/ \E k \in 1..Len(l) : low = k..(k + n - 1)}

\* the list l a day later
NextDay(l) ==
    [i \in 1..Len(l) |-> TariffSlot(l[i].start + DayMinutes,
                                    l[i].end + DayMinutes,
                                    l[i].price_chf_per_kwh)]

\* the schedules of today and tomorrow
WakeSchedules == {d0 \o NextDay(d1) : d0 \in WakeDays, d1 \in WakeDays}

\* the coordinator is ready and its platforms are not yet set up
InitWake ==
    /\ FuseOff /\ ApiOff /\ StatsOff /\ DailyOff /\ EmsOff /\ HoursOff
    /\ CalqOff /\ FlowOff
    /\ w_upstream \in WakeSchedules
    /\ now \in 0..(DayMinutes - 1)
    /\ timers = {}
    /\ bus = None
    /\ store = None
    /\ auth_type = "public"
    /\ phase = "loaded"
    /\ inflight = None
    /\ data \in {None, Some(w_upstream)}
    /\ last_update_success = TRUE
    /\ last_good = None
    /\ cal_fused = <<>> /\ cal_events = <<>> /\ cal_unsubs = <<>>
    /\ cal_sched_at = None
    /\ cur_unsub = None /\ cur_state = None /\ nxt_state = None
    /\ in_unsub_update = None
    /\ in_unsub_midnight = None
    /\ in_state = None
    /\ in_sched_at = None
    /\ avg_unsub_midnight = None
    /\ avg_state = None

WakeUnchanged ==
    UNCHANGED <<pvars, apivars, statvars, dayvars, emsvars, hourvars,
                calqvars, flowvars, w_upstream, bus, store, auth_type, inflight,
                last_update_success, last_good, calvars, sensorvars>>

\* async_added_to_hass of the in-window sensor and of the daily-average
\* sensor
WakeAddEntities ==
    /\ phase = "loaded"
    /\ phase' = "running"
    /\ LET m1 == schedule_midnight_update(timers, in_unsub_midnight,
                                          "in_window_midnight", now)
           b1 == in_schedule_next_boundary_update(m1.timers, in_unsub_update,
                                                  data, now)
           \* _handle_coordinator_update
           b2 == in_schedule_next_boundary_update(b1.timers, b1.unsub, data,
                                                  now)
           m2 == schedule_midnight_update(b2.timers, avg_unsub_midnight,
                                          "daily_average_midnight", now)
       IN /\ timers' = m2.timers
          /\ in_unsub_midnight' = m1.unsub
          /\ in_unsub_update' = b2.unsub
          /\ avg_unsub_midnight' = m2.unsub
    /\ in_state' = in_window_is_on(data, now, WakeWindow, "cheapest")
    /\ in_sched_at' = Some(now)
    /\ avg_state' = daily_average_native_value(data, now, 0)
    /\ UNCHANGED <<now, data>>
    /\ WakeUnchanged

\* the coordinator notifies its listeners: of a fetched schedule, of the
\* empty list, or of a failed refresh that left the data as it was
WakeUpdate ==
    /\ phase = "running"
    /\ \E d \in {Some(w_upstream), Some(<<>>), data} :
          /\ data' = d
          \* EkzInConsecutiveWindowSensor._handle_coordinator_update
          /\ LET b == in_schedule_next_boundary_update(timers,
                                                       in_unsub_update, d, now)
             IN /\ timers' = b.timers
                /\ in_unsub_update' = b.unsub
          /\ in_state' = in_window_is_on(d, now, WakeWindow, "cheapest")
          /\ in_sched_at' = Some(now)
          \* _EkzDailyAverageSensor._handle_update
          /\ avg_state' = daily_average_native_value(d, now, 0)
    /\ UNCHANGED <<now, phase, in_unsub_midnight, avg_unsub_midnight>>
    /\ WakeUnchanged

\* _on_boundary of the in-window sensor
InBoundaryFires ==
    /\ phase = "running"
    /\ \E tm \in timers :
          /\ tm.owner = "in_window_boundary"
          /\ tm.at <= now
          /\ LET b == in_schedule_next_boundary_update(timers \ {tm},
                                                       in_unsub_update, data,
                                                       now)
             IN /\ timers' = b.timers
                /\ in_unsub_update' = b.unsub
    /\ in_state' = in_window_is_on(data, now, WakeWindow, "cheapest")
    /\ in_sched_at' = Some(now)
    /\ UNCHANGED <<now, phase, data, in_unsub_midnight, avg_unsub_midnight,
                   avg_state>>
    /\ WakeUnchanged

\* _on_midnight of the in-window sensor
InMidnightFires ==
    /\ phase = "running"
    /\ \E tm \in timers :
          /\ tm.owner = "in_window_midnight"
          /\ tm.at <= now
          /\ LET m == schedule_midnight_update(timers \ {tm},
                                               in_unsub_midnight,
                                               "in_window_midnight", now)
                 b == in_schedule_next_boundary_update(m.timers,
                                                       in_unsub_update, data,
                                                       now)
             IN /\ timers' = b.timers
                /\ in_unsub_midnight' = m.unsub
                /\ in_unsub_update' = b.unsub
    /\ in_state' = in_window_is_on(data, now, WakeWindow, "cheapest")
    /\ in_sched_at' = Some(now)
    /\ UNCHANGED <<now, phase, data, avg_unsub_midnight, avg_state>>
    /\ WakeUnchanged

\* mutant: the fired wake-up is not renewed
AvgMidnightFires_norearm ==
    /\ phase = "running"
    /\ \E tm \in timers :
          /\ tm.owner = "daily_average_midnight"
          /\ tm.at <= now
          /\ timers' = timers \ {tm}
    /\ avg_state' = daily_average_native_value(data, now, 0)
    /\ UNCHANGED <<now, phase, data, in_unsub_update, in_unsub_midnight,
                   in_state, in_sched_at, avg_unsub_midnight>>
    /\ WakeUnchanged

\* _on_midnight of the daily-average sensor
AvgMidnightFires ==
    /\ phase = "running"
    /\ \E tm \in timers :
          /\ tm.owner = "daily_average_midnight"
          /\ tm.at <= now
          /\ LET m == schedule_midnight_update(timers \ {tm},
                                               avg_unsub_midnight,
                                               "daily_average_midnight", now)
             IN /\ timers' = m.timers
                /\ avg_unsub_midnight' = m.unsub
    /\ avg_state' = daily_average_native_value(data, now, 0)
    /\ UNCHANGED <<now, phase, data, in_unsub_update, in_unsub_midnight,
                   in_state, in_sched_at>>
    /\ WakeUnchanged

\* time passes; the host runs every due callback before
WakeTick ==
    /\ phase = "running"
    /\ now < WakeMaxT
    /\ \A tm \in timers : tm.at > now
    /\ now' = now + 1
    /\ UNCHANGED <<timers, phase, data, in_unsub_update, in_unsub_midnight,
                   in_state, in_sched_at, avg_unsub_midnight, avg_state>>
    /\ WakeUnchanged

NextWake ==
    \/ WakeAddEntities
    \/ WakeUpdate
    \/ InBoundaryFires
    \/ InMidnightFires
    \/ AvgMidnightFires
    \/ WakeTick

SpecWake == InitWake /\ [][NextWake]_vars

(***************************************************************************)
(* calendar.py: async_get_events and the event property, on the events of  *)
(* bounded slot lists                                                      *)
(***************************************************************************)
\* mutant: an event that only touches the range is kept
event_in_range_closed(ev, start_date, end_date) ==
    ~(ev.end < start_date) /\ ~(ev.start > end_date)

\* the two `continue` tests of async_get_events
event_in_range(ev, start_date, end_date) ==
    ~(ev.end <= start_date) /\ ~(ev.start >= end_date)

\* EkzTariffsCalendar.async_get_events
async_get_events(events, start_date, end_date) ==
    sort_by_start(SelectSeq(events,
                            LAMBDA ev : event_in_range(ev, start_date,
                                                       end_date)))

RECURSIVE event_from(_, _, _)
event_from(events, i, t) ==
    IF i > Len(events) THEN None
    ELSE IF events[i].start <= t /\ t < events[i].end THEN Some(events[i])
    ELSE IF events[i].start > t THEN Some(events[i])
    ELSE event_from(events, i + 1, t)

RECURSIVE current_event_from(_, _, _)
current_event_from(events, i, t) ==
    IF i > Len(events) THEN None
    ELSE IF events[i].start <= t /\ t < events[i].end THEN Some(events[i])
    ELSE current_event_from(events, i + 1, t)

\* mutant: an event that has not started is never returned
calendar_event_current_only(events, t) == current_event_from(events, 1, t)

\* EkzTariffsCalendar.event
calendar_event(events, t) == event_from(events, 1, t)

\* _handle_coordinator_update: the events of the fused intervals
events_of(slots) ==
    LET fused == fuse_slots(slots)
    IN [i \in 1..Len(fused) |-> CalendarEvent(fused[i], i - 1)]

InitCalq ==
    /\ FuseOff /\ ApiOff /\ StatsOff /\ SysOff
    /\ DailyOff /\ EmsOff /\ HoursOff /\ WakeOff /\ FlowOff
    /\ c_pc = "input"
    /\ c_events \in {events_of(l) : l \in SlotLists}
    /\ c_range = None
    /\ c_now = 0
    /\ c_out = <<>>
    /\ c_event = None

CallGetEvents ==
    /\ c_pc = "input"
    /\ \E start_date \in 0..MaxT, end_date \in 0..MaxT :
          /\ start_date <= end_date
          /\ c_range' = Some([start_date |-> start_date,
                              end_date |-> end_date])
          /\ c_out' = async_get_events(c_events, start_date, end_date)
    /\ c_pc' = "listed"
    /\ UNCHANGED <<c_events, c_now, c_event>>
    /\ UNCHANGED <<pvars, apivars, statvars, dayvars, emsvars, hourvars,
                   wakevars, flowvars, sysvars>>

ReadEvent ==
    /\ c_pc = "input"
    /\ \E t \in 0..MaxT :
          /\ c_now' = t
          /\ c_event' = calendar_event(c_events, t)
    /\ c_pc' = "current"
    /\ UNCHANGED <<c_events, c_range, c_out>>
    /\ UNCHANGED <<pvars, apivars, statvars, dayvars, emsvars, hourvars,
                   wakevars, flowvars, sysvars>>

NextCalq == CallGetEvents \/ ReadEvent

SpecCalq == InitCalq /\ [][NextCalq]_vars

(***************************************************************************)
(* config_flow.py: the OAuth flow from async_oauth_create_entry on         *)
(***************************************************************************)
\* the upstream's answers to the flow's status check: those of a refresh,
\* a body that asks for linking with an empty URL, and a body with
\* "error" set next to a link status
FlowAnswers ==
    EmsAnswers
        \cup {[kind |-> "response", status |-> 200, body |-> b] :
                 b \in {EmsDict(None, None, None, Some("link_required"),
                                Some("")),
                        EmsDict(Some(TRUE), None, Some("text"),
                                Some("link_required"), Some("uri"))}}

\* the tokens the OAuth implementation may hand over
FlowTokens == {"token_a", "token_b"}

\* the values str(uuid.uuid4()) may take
FlowIds == {"uuid_1", "uuid_2", "uuid_3"}

FlowResult(step, linking_url, entry) ==
    [step |-> step, linking_url |-> linking_url, entry |-> entry]

\* async_step_ems_linking_complete: _abort_if_unique_id_configured raises
\* AbortFlow, otherwise the entry is created
async_step_ems_linking_complete(configured, id, token, linking_url) ==
    IF configured THEN FlowResult("abort", linking_url, None)
    ELSE FlowResult("create_entry", linking_url,
                    Some([auth_type |-> "oauth",
                          ems_instance_id |-> id,
                          token |-> token]))

\* mutant: the form is shown whenever linking is required
linking_form_needed_without_url(response) ==
    response.link_status = Some("link_required")

\* link_status is link_required and the linking URL is truthy
linking_form_needed(response) ==
    /\ response.link_status = Some("link_required")
    /\ response.linking_process_redirect_uri # None
    /\ response.linking_process_redirect_uri # Some("")

\* async_step_ems_linking.  The completion step runs inside the try block
\* too: an AbortFlow it raises there is caught by `except Exception`, whose
\* handler runs the completion step once more, which aborts again.
async_step_ems_linking(user_input, answer, configured, id, token, url) ==
    LET complete == async_step_ems_linking_complete(configured, id, token,
                                                    url)
        result == check_ems_link_status(answer)
    IN IF user_input # None THEN complete
       ELSE IF result.raised THEN complete
       ELSE IF result.value.error # None /\ result.value.error # Some(FALSE)
       THEN complete
       ELSE IF linking_form_needed(result.value)
       THEN FlowResult("ems_linking",
                       result.value.linking_process_redirect_uri, None)
       ELSE complete

\* the OAuth implementation has obtained a token
InitFlow ==
    /\ FuseOff /\ ApiOff /\ StatsOff /\ SysOff
    /\ DailyOff /\ EmsOff /\ HoursOff /\ WakeOff /\ CalqOff
    /\ f_step = "authorized"
    /\ f_token \in {Some(tk) : tk \in FlowTokens}
    /\ f_answer \in {Some(answer) : answer \in FlowAnswers}
    /\ f_configured \in BOOLEAN
    /\ f_ems_instance_id = None
    /\ f_linking_url = None
    /\ f_entry = None

FlowUnchanged ==
    UNCHANGED <<pvars, apivars, statvars, dayvars, emsvars, hourvars,
                wakevars, calqvars, sysvars>>

\* what the flow manager does with the result of a step
FlowStepDone(r) ==
    /\ f_step' = r.step
    /\ f_linking_url' = r.linking_url
    /\ f_entry' = r.entry
    /\ f_configured' = (f_configured \/ r.step = "create_entry")

\* async_oauth_create_entry
OauthCreateEntry ==
    /\ f_step = "authorized"
    /\ \E id \in FlowIds :
          /\ f_ems_instance_id' = Some(id)
          /\ FlowStepDone(async_step_ems_linking(None, f_answer[1],
                                                 f_configured, id,
                                                 f_token[1], f_linking_url))
    /\ UNCHANGED <<f_token, f_answer>>
    /\ FlowUnchanged

\* the user submits the linking form
SubmitLinkingForm ==
    /\ f_step = "ems_linking"
    /\ FlowStepDone(async_step_ems_linking(Some(<<>>), f_answer[1],
                                           f_configured,
                                           f_ems_instance_id[1], f_token[1],
                                           f_linking_url))
    /\ UNCHANGED <<f_token, f_answer, f_ems_instance_id>>
    /\ FlowUnchanged

\* while the form is shown another flow creates the OAuth entry
OtherFlowCreatesEntry ==
    /\ f_step = "ems_linking"
    /\ ~f_configured
    /\ f_configured' = TRUE
    /\ UNCHANGED <<f_step, f_token, f_answer, f_ems_instance_id,
                   f_linking_url, f_entry>>
    /\ FlowUnchanged

NextFlow == OauthCreateEntry \/ SubmitLinkingForm \/ OtherFlowCreatesEntry

SpecFlow == InitFlow /\ [][NextFlow]_vars

(***************************************************************************)
(* Claims about fuse_slots                                                 *)
(***************************************************************************)
Covers(iv, t) == iv.start <= t /\ t < iv.end

\* slots i and i+1 have the same rounded price and no gap between them
Joined(slots, i) ==
    /\ norm(slots[i + 1].price_chf_per_kwh) = norm(slots[i].price_chf_per_kwh)
    /\ slots[i + 1].start = slots[i].end

\* the indices at which a run of joined slots starts
RunStarts(slots) ==
    {i \in 1..Len(slots) : i = 1 \/ ~Joined(slots, i - 1)}

RunEnd(slots, g) ==
    CHOOSE h \in g..Len(slots) :
        /\ \A j \in g..(h - 1) : Joined(slots, j)
        /\ (h = Len(slots) \/ ~Joined(slots, h))

KthRunStart(slots, k) ==
    CHOOSE g \in RunStarts(slots) :
        Cardinality({x \in RunStarts(slots) : x <= g}) = k

\* C1: fuse_slots extends the running interval by a slot exactly when the
\* slot's rounded price equals the interval's and the slot starts where the
\* interval ends, and otherwise closes it and starts a new one: the output is
\* one interval per run of joined slots, from the run's first start to its
\* last end at the rounded price; [2,3) and [3,4) at 0.30 give [2,4) at 0.30.
C1_FuseMergesAdjacentEqual ==
    p_pc # "input" =>
        /\ Len(p_fused) = Cardinality(RunStarts(p_slots))
        /\ \A k \in 1..Len(p_fused) :
              LET g == KthRunStart(p_slots, k)
                  h == RunEnd(p_slots, g)
              IN p_fused[k] = FusedEvent(p_slots[g].start, p_slots[h].end,
                                         norm(p_slots[g].price_chf_per_kwh))
        /\ (p_slots = <<TariffSlot(2, 3, 3000000), TariffSlot(3, 4, 3000000)>>
               => p_fused = <<FusedEvent(2, 4, 3000000)>>)

\* a run of two slots whose prices differ before rounding, then a new interval
C1_Witness ==
    /\ p_pc = "fused"
    /\ Len(p_slots) = 3
    /\ Joined(p_slots, 1)
    /\ p_slots[1].price_chf_per_kwh # p_slots[2].price_chf_per_kwh
    /\ ~Joined(p_slots, 2)
    /\ Len(p_fused) = 2

\* C2: two consecutive slots of equal rounded price of which the second does
\* not start at the first's end end up in two separate consecutive intervals,
\* and no output interval covers an instant that no input slot covers.
C2_FuseNeverBridgesGap ==
    p_pc # "input" =>
        /\ \A i \in 1..(Len(p_slots) - 1) :
              (/\ norm(p_slots[i].price_chf_per_kwh)
                     = norm(p_slots[i + 1].price_chf_per_kwh)
               /\ p_slots[i + 1].start # p_slots[i].end)
              => \E k \in 1..(Len(p_fused) - 1) :
                     /\ p_fused[k].end = p_slots[i].end
                     /\ p_fused[k + 1].start = p_slots[i + 1].start
        /\ \A k \in 1..Len(p_fused) : \A t \in 0..MaxT :
              Covers(p_fused[k], t)
              => \E i \in 1..Len(p_slots) : Covers(p_slots[i], t)

\* two equal-priced slots with a gap between them have been fused
C2_Witness ==
    /\ p_pc = "fused"
    /\ \E i \in 1..(Len(p_slots) - 1) :
          /\ p_slots[i].price_chf_per_kwh = p_slots[i + 1].price_chf_per_kwh
          /\ p_slots[i + 1].start > p_slots[i].end
    /\ Len(p_fused) = Len(p_slots)

\* C3: for a sorted, non-overlapping input the output is the minimal
\* run-length encoding: no two consecutive intervals have equal price and
\* touch, every interval is a maximal run of joined slots, and the empty
\* input gives the empty output.
C3_FuseMinimalRunLength ==
    (p_pc # "input" /\ WellFormed(p_slots)) =>
        /\ \A k \in 1..(Len(p_fused) - 1) :
              ~(/\ p_fused[k].price = p_fused[k + 1].price
                /\ p_fused[k].end = p_fused[k + 1].start)
        /\ \A k \in 1..Len(p_fused) :
              \E g \in 1..Len(p_slots) : \E h \in g..Len(p_slots) :
                  /\ p_fused[k].start = p_slots[g].start
                  /\ p_fused[k].end = p_slots[h].end
                  /\ \A j \in g..h :
                        norm(p_slots[j].price_chf_per_kwh) = p_fused[k].price
                  /\ \A j \in g..(h - 1) : Joined(p_slots, j)
                  /\ (g = 1 \/ ~Joined(p_slots, g - 1))
                  /\ (h = Len(p_slots) \/ ~Joined(p_slots, h))
        /\ (p_slots = <<>> => p_fused = <<>>)

\* three joined slots have become one interval
C3_Witness ==
    /\ p_pc = "fused"
    /\ WellFormed(p_slots)
    /\ Len(p_slots) = 3
    /\ Joined(p_slots, 1)
    /\ Joined(p_slots, 2)
    /\ Len(p_fused) = 1

(***************************************************************************)
(* Claims about the lookups                                                *)
(***************************************************************************)
Covering(ivs, t) == {i \in 1..Len(ivs) : Covers(ivs[i], t)}

Future(ivs, t) == {i \in 1..Len(ivs) : ivs[i].start > t}

MinOf(S) == CHOOSE x \in S : \A y \in S : x <= y

\* C4: _find_current_slot returns an interval of the list with
\* start <= now < end when there is one and None otherwise; an interval's
\* end is not inside it.
C4_FindCurrentHalfOpen ==
    p_pc = "found" =>
        /\ Covering(p_intervals, p_now) # {}
             => /\ p_cur # None
                /\ \E i \in Covering(p_intervals, p_now) :
                      p_cur[1] = p_intervals[i]
        /\ Covering(p_intervals, p_now) = {} => p_cur = None
        /\ p_cur # None => p_cur[1].end # p_now

\* now is the end of one interval and the start of the one returned
C4_Witness ==
    /\ p_pc = "found"
    /\ p_cur # None
    /\ p_cur[1].start = p_now
    /\ \E i \in 1..Len(p_intervals) : p_intervals[i].end = p_now

\* C5: _find_next_boundary returns the end of the interval containing now
\* when there is one, otherwise the start of the first interval in list order
\* that starts after now (the earliest such start when the list is sorted),
\* otherwise None.
C5_NextBoundary ==
    p_pc = "found" =>
        LET cov == Covering(p_intervals, p_now)
            fut == Future(p_intervals, p_now)
        IN /\ cov # {} => p_next = Some(p_intervals[MinOf(cov)].end)
           /\ (cov = {} /\ fut # {})
                => /\ p_next = Some(p_intervals[MinOf(fut)].start)
                   /\ (\A i \in 1..(Len(p_intervals) - 1) :
                          p_intervals[i].start <= p_intervals[i + 1].start)
                      => \A i \in fut : p_next[1] <= p_intervals[i].start
           /\ (cov = {} /\ fut = {}) => p_next = None

\* now lies in a gap before two later intervals of a sorted list
C5_Witness ==
    /\ p_pc = "found"
    /\ p_intervals = p_fused
    /\ Covering(p_intervals, p_now) = {}
    /\ Cardinality(Future(p_intervals, p_now)) = 2
    /\ p_intervals[1].start < p_now
    /\ p_next = Some(p_intervals[2].start)

(***************************************************************************)
(* Claims about the sensors, the calendar and the coordinators             *)
(***************************************************************************)
\* the published slot list as the consumers read it
Published == DataOrEmpty(data)

\* C6: the value of the current-price sensor is the rounded price of the
\* slot of the published list that contains now, and None when no slot
\* contains now or nothing is published.
C6_CurrentPriceValue ==
    phase = "running" =>
        LET cov == Covering(Published, now)
        IN current_price_native_value(data, now) =
              IF cov = {} THEN None
              ELSE Some(norm(Published[MinOf(cov)].price_chf_per_kwh))

\* now lies strictly inside a slot whose price is changed by the rounding
C6_Witness ==
    /\ phase = "running"
    /\ \E i \in 1..Len(Published) :
          /\ Published[i].start < now
          /\ now < Published[i].end
          /\ Published[i].price_chf_per_kwh
                # norm(Published[i].price_chf_per_kwh)
          /\ current_price_native_value(data, now)
                = Some(norm(Published[i].price_chf_per_kwh))

\* C7: when now lies inside a tariff slot the value of the next-change
\* sensor is the end of that slot, also when the following slot has the same
\* price.
C7_NextChangeIsSlotEnd ==
    phase = "running" =>
        \A i \in 1..Len(Published) :
            Covers(Published[i], now)
            => next_change_native_value(data, now) = Some(Published[i].end)

\* the event data fired for the fused interval fe, as far as C8 reads it
IsStartEventOf(ev, fe) ==
    /\ ev.type = "tariff_start"
    /\ ev.start = fe.start
    /\ ev.price_chf_per_kwh = fe.price

\* C8: every fused interval of the published list that started after the
\* calendar last scheduled its callbacks has its callback pending until time
\* reaches its start, and there the tariff_start event with its price is
\* fired; the second of two joined slots gets no callback and no event.
C8_CalendarFiresAtFusedStarts ==
    (phase = "running" /\ cal_sched_at # None) =>
        /\ \A k \in 1..Len(cal_fused) :
              cal_fused[k].start > cal_sched_at[1] =>
                 /\ now < cal_fused[k].start
                      => CalendarTimer(cal_fused[k]) \in timers
                 /\ now = cal_fused[k].start
                      => \/ CalendarTimer(cal_fused[k]) \in timers
                         \/ /\ bus # None
                            /\ IsStartEventOf(bus[1], cal_fused[k])
        /\ \A i \in 1..(Len(Published) - 1) :
              Joined(Published, i) =>
                 /\ \A t \in timers :
                       t.owner = "calendar" => t.at # Published[i + 1].start
                 /\ (cal_sched_at[1] < now /\ bus # None)
                       => bus[1].start # Published[i + 1].start

\* two joined slots were published before the first one started, and the one
\* event of their fused interval has been fired at the first slot's start
C8_Witness ==
    /\ phase = "running"
    /\ cal_sched_at # None
    /\ cal_sched_at[1] < now
    /\ Len(Published) = 2
    /\ Joined(Published, 1)
    /\ Published[1].start = now
    /\ bus # None
    /\ IsStartEventOf(bus[1], cal_fused[1])
    /\ \A t \in timers : t.owner # "calendar"

\* C9: a refresh of the public coordinator whose fetch or save raises is a
\* failed update and leaves the published data alone: the data is always the
\* list of the most recent successful refresh, or the loaded snapshot.
C9_PublicFailureKeepsData ==
    /\ [][(/\ auth_type = "public"
           /\ inflight # None
           /\ inflight' = None
           /\ inflight[1] \in FetchErrors)
          => (data' = data /\ last_update_success' = FALSE)]_vars
    /\ [](auth_type = "public" => data = last_good)

\* a refresh has failed after a successful one, and the list is still there
C9_Witness ==
    /\ auth_type = "public"
    /\ phase = "running"
    /\ inflight = None
    /\ ~last_update_success
    /\ data # None
    /\ data[1] # <<>>
    /\ data = last_good
    /\ cal_fused = fuse_slots(data[1])

\* C10: a refresh of the OAuth coordinator whose fetch fails with an HTTP
\* response error other than 400 is a failed update (UpdateFailed) and the
\* slot list published before it is retained, not replaced or cleared.
C10_OAuthHttpErrorKeepsData ==
    [][(/\ auth_type = "oauth"
        /\ phase = "running"
        /\ data # None
        /\ data[1] # <<>>
        /\ inflight = Some("http_other")
        /\ inflight' = None)
       => (data' = data /\ last_update_success' = FALSE)]_vars

\* the pending wake-ups of the current-price sensor
CurTimers == {t \in timers : t.owner = "current_price"}

\* the boundary the current-price sensor finds in the published list at now
NextBoundary == _find_next_boundary(utils_fuse_slots(Published), now)

\* C11: a refresh of the OAuth coordinator whose fetch fails with HTTP status
\* 400 is a successful update that publishes the empty slot list, and the
\* consumers then show unknown: no current price, no next change, no calendar
\* event and no pending wake-up.
C11_OAuthNotLinkedPublishesEmpty ==
    [][(/\ auth_type = "oauth"
        /\ inflight = Some("http_400")
        /\ inflight' = None)
       => /\ data' = Some(<<>>)
          /\ last_update_success'
          /\ phase' # "not_ready"
          /\ phase = "running"
                => /\ cur_state' = None
                   /\ nxt_state' = None
                   /\ cal_fused' = <<>>
                   /\ cal_events' = <<>>
                   /\ timers' = {}]_vars

\* a non-empty list was published, then a refresh met status 400 while now
\* lies inside a slot of that list
C11_Witness ==
    /\ auth_type = "oauth"
    /\ phase = "running"
    /\ inflight = None
    /\ data = Some(<<>>)
    /\ last_update_success
    /\ last_good # None
    /\ \E i \in 1..Len(last_good[1]) : Covers(last_good[1][i], now)
    /\ cur_state = None
    /\ cal_events = <<>>

\* C12: while the published list is unchanged, a boundary wake-up that fires
\* rewrites the state of the current-price sensor and arms one wake-up at
\* _find_next_boundary evaluated at the firing time, or none when there is no
\* later boundary; so in every state the pending wake-up is due now or is
\* at the next boundary of the current data, and none is pending only when no
\* boundary is left.
C12_BoundaryWakeupRearms ==
    /\ [][(/\ phase = "running"
           /\ data' = data
           /\ \E t \in CurTimers : t.at <= now /\ t \notin timers')
          => /\ cur_state' = current_price_native_value(data, now)
             /\ IF NextBoundary = None
                THEN CurTimers' = {} /\ cur_unsub' = None
                ELSE /\ NextBoundary[1] > now
                     /\ CurTimers' = {BoundaryTimer(NextBoundary[1])}
                     /\ cur_unsub' = Some(BoundaryTimer(NextBoundary[1]))]_vars
    /\ [](phase = "running"
            => /\ \A t \in CurTimers : t.at = now \/ NextBoundary = Some(t.at)
               /\ (CurTimers = {} => NextBoundary = None))

\* the wake-up armed at an earlier publish has fired at the boundary between
\* two fused intervals and the wake-up for the following boundary is pending
C12_Witness ==
    /\ phase = "running"
    /\ cal_sched_at # None
    /\ cal_sched_at[1] < now
    /\ Len(cal_fused) = 2
    /\ cal_fused[1].end = now
    /\ cal_fused[2].start = now
    /\ cur_state = Some(cal_fused[2].price)
    /\ CurTimers = {BoundaryTimer(cal_fused[2].end)}

\* C13: the current-price sensor never has more than one wake-up pending,
\* and a pending wake-up is the one its handle refers to.
C13_OneBoundaryWakeup ==
    /\ Cardinality(CurTimers) <= 1
    /\ \A t \in CurTimers : cur_unsub = Some(t)

\* a failed refresh has notified the sensor while its wake-up was pending:
\* the wake-up was cancelled and registered again, and one is pending
C13_Witness ==
    /\ phase = "running"
    /\ ~last_update_success
    /\ inflight = None
    /\ now >= 1
    /\ cal_sched_at = Some(now)
    /\ Cardinality(CurTimers) = 1
    /\ \A t \in CurTimers : t.at > now

\* C14: once the entities are removed from the host none of their wake-ups
\* remains pending.
C14_TeardownCancelsWakeups ==
    phase = "unloaded" => timers = {}

C16_CalendarFollowsData ==
    phase = "running" =>
        /\ cal_fused = fuse_slots(Published)
        /\ Len(cal_events) = Len(cal_fused)
        /\ \A i \in 1..Len(cal_fused) :
              /\ cal_events[i].start = cal_fused[i].start
              /\ cal_events[i].end = cal_fused[i].end

\* at an instant at which a callback of the earlier data fired, a refresh
\* has published two joined slots: one event, and the earlier events are gone
C16_Witness ==
    /\ phase = "running"
    /\ bus # None
    /\ cal_sched_at = Some(now)
    /\ last_update_success
    /\ Len(Published) = 2
    /\ Joined(Published, 1)
    /\ Len(cal_events) = 1
    /\ cal_events[1].start = Published[1].start
    /\ cal_events[1].end = Published[2].end

(***************************************************************************)
(* Claims about fusion again, the API clients and the window statistics    *)
(***************************************************************************)
\* C17: fusing the fused intervals, taken as slots, gives the same sequence
\* of intervals again, for every slot list.
C17_FusionIdempotent ==
    p_pc = "refused" => p_refused = p_fused

\* slots whose prices differ only before rounding have been fused into one
\* interval next to another one, and fusing again has changed nothing
C17_Witness ==
    /\ p_pc = "refused"
    /\ Len(p_slots) = 3
    /\ p_slots[1].price_chf_per_kwh # p_slots[2].price_chf_per_kwh
    /\ Len(p_fused) = 2
    /\ p_fused[1].end = p_fused[2].start
    /\ p_refused = p_fused

\* ascending non-strictly by start
SortedByStart(slots) ==
    \A i \in 1..(Len(slots) - 1) : slots[i].start <= slots[i + 1].start

\* no two slots of the list share an instant
PairwiseDisjoint(slots) ==
    \A i \in 1..Len(slots) : \A j \in (i + 1)..Len(slots) :
        slots[i].end <= slots[j].start \/ slots[j].end <= slots[i].start

\* the response's entries that have both timestamps and a price, as slots
CompleteEntries(items) ==
    LET kept == SelectSeq(items, LAMBDA it : ~item_skipped(it))
    IN [i \in 1..Len(kept) |->
           TariffSlot(kept[i].start_timestamp[1], kept[i].end_timestamp[1],
                      kept[i].value[1])]

Occurrences(slots, x) == Cardinality({i \in 1..Len(slots) : slots[i] = x})

\* C18 (as the code has it): the slot list of a fetch, public or OAuth, is
\* sorted ascending by start whatever the order of the response's entries,
\* and holds exactly the response's complete entries; so its slots are
\* pairwise non-overlapping when the response's entries are.
C18_FetchSortedKeepsEntries ==
    a_pc = "parsed" =>
        /\ SortedByStart(a_slots)
        /\ Len(a_slots) = Len(CompleteEntries(a_resp))
        /\ \A i \in 1..Len(a_slots) :
              Occurrences(a_slots, a_slots[i])
                  = Occurrences(CompleteEntries(a_resp), a_slots[i])
        /\ PairwiseDisjoint(CompleteEntries(a_resp))
              => PairwiseDisjoint(a_slots)

\* three disjoint entries came latest first, next to one without a price,
\* and the OAuth client returned them earliest first
C18_Witness ==
    /\ a_pc = "parsed"
    /\ a_api = "oauth"
    /\ Len(a_resp) = 3
    /\ a_resp[2].value = None
    /\ Len(a_slots) = 2
    /\ a_resp[1].start_timestamp[1] > a_slots[1].start
    /\ a_slots[2].start = a_resp[1].start_timestamp[1]
    /\ PairwiseDisjoint(a_slots)

\* C18 (as stated): the slot list of every fetch is sorted ascending by
\* start and its slots are pairwise non-overlapping.
C18_FetchSortedNonOverlapping ==
    a_pc = "parsed" => (SortedByStart(a_slots) /\ PairwiseDisjoint(a_slots))

\* the window length in buckets
WindowLen == s_window \div BucketMinutes

\* the start indices (from 0) of the windows without a missing bucket
EligibleStarts ==
    {i \in 0..(Len(s_prices) - WindowLen) :
        \A j \in (i + 1)..(i + WindowLen) : s_prices[j] # None}

RECURSIVE SumOfBuckets(_, _)
SumOfBuckets(i, n) ==
    IF n = 0 THEN 0 ELSE s_prices[i + n][1] + SumOfBuckets(i, n - 1)

\* the start index of the window returned
ResultStart == (s_res[1].start - day_start_of(0)) \div BucketMinutes

\* C19: rolling_window_extreme returns a window only if none of its buckets
\* is missing, with the mean of all its buckets as average, and returns None
\* exactly when every candidate window has a missing bucket; the window
\* sensors then show None as value, as window_start and window_end, and as
\* is_on.
C19_WindowNeedsAllBuckets ==
    /\ s_pc \in {"searched", "sensed"} =>
          /\ (s_res = None) <=> (EligibleStarts = {})
          /\ s_res # None =>
                /\ ResultStart \in EligibleStarts
                /\ s_res[1].start = day_start_of(0) + ResultStart * BucketMinutes
                /\ s_res[1].end = s_res[1].start + s_window
                /\ s_res[1].avg.den = WindowLen
                /\ s_res[1].avg.num = SumOfBuckets(ResultStart, WindowLen)
    /\ (s_pc = "sensed" /\ s_res = None) =>
          /\ s_value = None
          /\ s_attrs[1].window_start = None
          /\ s_attrs[1].window_end = None
          /\ s_is_on = None

\* most buckets have a price, yet every window of two buckets has a missing
\* one: no result, and the sensors show None
C19_Witness ==
    /\ s_pc = "sensed"
    /\ WindowLen = 2
    /\ Cardinality({k \in 1..Len(s_prices) : s_prices[k] # None}) >= 2
    /\ s_attrs # None
    /\ s_attrs[1].missing_buckets >= 1
    /\ s_res = None
    /\ s_value = None
    /\ s_is_on = None

\* the mean of the eligible window that starts at index i, as num / den
MeanAt(i) == [num |-> SumOfBuckets(i, WindowLen), den |-> WindowLen]

\* C20: the window returned is an eligible one whose average no eligible
\* window beats (none is lower in mode min, none higher in mode max), and no
\* eligible window with the same average starts earlier.
C20_WindowExtremeEarliest ==
    (s_pc \in {"searched", "sensed"} /\ s_res # None) =>
        /\ ResultStart \in EligibleStarts
        /\ \A j \in EligibleStarts :
              /\ s_mode = "min"
                    => MeanAt(ResultStart).num <= MeanAt(j).num
              /\ s_mode = "max"
                    => MeanAt(ResultStart).num >= MeanAt(j).num
              /\ MeanAt(j).num = MeanAt(ResultStart).num => ResultStart <= j

\* two windows share the lowest average, a third one lies between them with
\* a higher one, and the earlier of the two is returned
C20_Witness ==
    /\ s_pc = "searched"
    /\ s_mode = "min"
    /\ s_res # None
    /\ WindowLen = 2
    /\ \E j \in EligibleStarts : \E k \in EligibleStarts :
          /\ ResultStart < j
          /\ j < k
          /\ MeanAt(j).num > MeanAt(ResultStart).num
          /\ MeanAt(k).num = MeanAt(ResultStart).num

(***************************************************************************)
(* The day's grid and the daily statistics                                 *)
(***************************************************************************)
\* the slot list the daily functions were called with
DailyList == DataOrEmpty(d_slots)

\* the number of the ticks lo, ..., hi - 1 that lie in the slot
Overlap(s, lo, hi) ==
    Cardinality({t \in lo..(hi - 1) : s.start <= t /\ t < s.end})

\* the start of the k-th bucket (from 1) of the day the grid was made for
BucketStart(k) == day_start_of(d_offset) + (k - 1) * BucketMinutes

\* the indices of the slots that overlap the k-th bucket
OverlappingBucket(k) ==
    {i \in 1..Len(DailyList) :
        Overlap(DailyList[i], BucketStart(k),
                BucketStart(k) + BucketMinutes) > 0}

\* C21: bucket_prices returns a grid of exactly N = (length of the day) /
\* bucket_minutes entries and the day's start; entry k is the price of the
\* first slot in list order that overlaps bucket k, even partially, and is
\* missing when no slot overlaps it; no slots give an all-missing grid and
\* one slot that spans the whole day gives N times its price.
C21_BucketGrid ==
    d_pc \in {"bucketed", "computed", "sensed"} =>
        /\ Len(d_grid[1].prices) = DayMinutes \div BucketMinutes
        /\ d_grid[1].day_start = day_start_of(d_offset)
        /\ \A k \in 1..(DayMinutes \div BucketMinutes) :
              IF OverlappingBucket(k) = {}
              THEN d_grid[1].prices[k] = None
              ELSE d_grid[1].prices[k]
                       = Some(DailyList[MinOf(OverlappingBucket(k))]
                                  .price_chf_per_kwh)
        /\ DailyList = <<>> =>
              \A k \in 1..(DayMinutes \div BucketMinutes) :
                  d_grid[1].prices[k] = None
        /\ (/\ Len(DailyList) = 1
            /\ DailyList[1].start <= day_start_of(d_offset)
            /\ DailyList[1].end >= day_start_of(d_offset) + DayMinutes) =>
              \A k \in 1..(DayMinutes \div BucketMinutes) :
                  d_grid[1].prices[k] = Some(DailyList[1].price_chf_per_kwh)

\* two slots of different prices each cover a part of one bucket: the bucket
\* has the price of the one that is first in the list, though it starts
\* later, and another bucket of the day is missing
C21_Witness ==
    /\ d_pc = "bucketed"
    /\ Len(DailyList) = 2
    /\ DailyList[1].start > DailyList[2].start
    /\ DailyList[1].price_chf_per_kwh # DailyList[2].price_chf_per_kwh
    /\ \E k \in 1..Len(d_grid[1].prices) :
          /\ OverlappingBucket(k) = {1, 2}
          /\ DailyList[1].start > BucketStart(k)
          /\ d_grid[1].prices[k] = Some(DailyList[1].price_chf_per_kwh)
    /\ \E k \in 1..Len(d_grid[1].prices) : d_grid[1].prices[k] = None

\* the sum of the values of a function with a finite domain
RECURSIVE SumFn(_)
SumFn(f) ==
    IF DOMAIN f = {} THEN 0
    ELSE LET x == CHOOSE x \in DOMAIN f : TRUE
         IN f[x] + SumFn([y \in DOMAIN f \ {x} |-> f[y]])

\* the overlap of the i-th slot with the day the statistics were made for
DayOverlap(i) ==
    Overlap(DailyList[i], day_start_of(d_offset),
            day_start_of(d_offset) + DayMinutes)

\* the indices of the slots that intersect that day
Intersecting == {i \in 1..Len(DailyList) : DayOverlap(i) > 0}

\* sum(price_i * overlap_i) and sum(overlap_i) over the intersecting slots
WeightedTotal ==
    SumFn([i \in Intersecting |->
              DailyList[i].price_chf_per_kwh * DayOverlap(i)])

OverlapTotal == SumFn([i \in Intersecting |-> DayOverlap(i)])

\* C22: daily_stats weights every intersecting slot by its overlap with the
\* day window, not by its duration: avg = sum(price_i * overlap_i) /
\* sum(overlap_i) and covered_minutes = sum(overlap_i); the daily-average
\* sensor shows that average rounded to 6 decimals and that covered_minutes.
C22_DailyAverageWeightsByOverlap ==
    (d_pc \in {"computed", "sensed"} /\ Intersecting # {}) =>
        /\ d_stats[1].avg # None
        /\ d_stats[1].avg[1].den > 0
        /\ d_stats[1].avg[1].num * OverlapTotal
               = WeightedTotal * d_stats[1].avg[1].den
        /\ d_stats[1].covered_minutes = OverlapTotal
        /\ d_pc = "sensed" =>
              /\ d_value = Some(round6([num |-> WeightedTotal,
                                        den |-> OverlapTotal]))
              /\ d_attrs[1].covered_minutes = OverlapTotal

\* a slot straddles the midnight that ends the day, a slot of another price
\* lies inside the day, and the average differs from the one that weights
\* the slots by their durations
C22_Witness ==
    /\ d_pc = "sensed"
    /\ d_offset = 0
    /\ Intersecting = {1, 2}
    /\ DailyList[1].price_chf_per_kwh # DailyList[2].price_chf_per_kwh
    /\ DailyList[1].end <= DayMinutes
    /\ DailyList[2].start < DayMinutes
    /\ DailyList[2].end > DayMinutes
    /\ d_stats[1].covered_minutes
           < (DailyList[1].end - DailyList[1].start)
                 + (DailyList[2].end - DailyList[2].start)
    /\ d_stats[1].avg[1].num
           * ((DailyList[1].end - DailyList[1].start)
                  + (DailyList[2].end - DailyList[2].start))
         # (DailyList[1].price_chf_per_kwh
                  * (DailyList[1].end - DailyList[1].start)
              + DailyList[2].price_chf_per_kwh
                  * (DailyList[2].end - DailyList[2].start))
             * d_stats[1].avg[1].den
    /\ d_value # None

\* C23: when no slot intersects the day, daily_stats returns avg, min, max,
\* median, q25 and q75 absent, slots_count = 0 and covered_minutes = 0, and
\* the daily-average sensor has no value (None) and shows the same absent
\* and zero attributes.
C23_EmptyDayStatsAbsent ==
    (d_pc \in {"computed", "sensed"} /\ Intersecting = {}) =>
        /\ d_stats # None
        /\ d_stats[1].avg = None
        /\ d_stats[1].min = None
        /\ d_stats[1].max = None
        /\ d_stats[1].median = None
        /\ d_stats[1].q25 = None
        /\ d_stats[1].q75 = None
        /\ d_stats[1].slots_count = 0
        /\ d_stats[1].covered_minutes = 0
        /\ d_pc = "sensed" =>
              /\ d_value = None
              /\ d_attrs[1].slots_count = 0
              /\ d_attrs[1].covered_minutes = 0
              /\ d_attrs[1].min_price_chf_per_kwh = None
              /\ d_attrs[1].max_price_chf_per_kwh = None
              /\ d_attrs[1].median_price_chf_per_kwh = None
              /\ d_attrs[1].q25_price_chf_per_kwh = None
              /\ d_attrs[1].q75_price_chf_per_kwh = None

\* the list has slots, all of them end before tomorrow begins, and the
\* sensor of tomorrow's average has no value
C23_Witness ==
    /\ d_pc = "sensed"
    /\ d_offset = 1
    /\ Len(DailyList) = 2
    /\ Intersecting = {}
    /\ d_stats[1].slots_count = 0
    /\ d_value = None

(***************************************************************************)
(* Claims about the calendar's callbacks and about setup                   *)
(***************************************************************************)
\* the pending callbacks of the calendar
CalTimers == {t \in timers : t.owner = "calendar"}

\* the callbacks of the calendar's fused intervals that start after t0
StartCallbacksAfter(t0) ==
    {CalendarTimer(cal_fused[k]) :
        k \in {j \in 1..Len(cal_fused) : cal_fused[j].start > t0}}

\* C24: while the calendar is added, its pending callbacks are callbacks of
\* the fused intervals of the current data that started after it last
\* scheduled, and every such interval that starts after now has its one
\* callback pending; right after an update the pending callbacks are exactly
\* the handles it kept, one per fused interval that starts after now; and an
\* event fired since the last update is the one of a fused interval of the
\* current data that starts now, whose callback is no longer pending.
C24_CalendarCallbacksOnePerLaterInterval ==
    (phase = "running" /\ cal_sched_at # None) =>
        /\ CalTimers \subseteq StartCallbacksAfter(cal_sched_at[1])
        /\ StartCallbacksAfter(now) \subseteq CalTimers
        /\ cal_sched_at[1] = now =>
              /\ CalTimers = StartCallbacksAfter(now)
              /\ Range(cal_unsubs) = CalTimers
              /\ Len(cal_unsubs)
                     = Cardinality({j \in 1..Len(cal_fused) :
                                       cal_fused[j].start > now})
        /\ (bus # None /\ cal_sched_at[1] < now) =>
              \E k \in 1..Len(cal_fused) :
                  /\ cal_fused[k].start = now
                  /\ IsStartEventOf(bus[1], cal_fused[k])
                  /\ CalendarTimer(cal_fused[k]) \notin timers

\* at an instant at which a callback of the earlier data fired, a refresh
\* has published a list with an interval that has started and one that
\* starts later: the one callback pending is the later one's
C24_Witness ==
    /\ phase = "running"
    /\ bus # None
    /\ cal_sched_at = Some(now)
    /\ last_update_success
    /\ inflight = None
    /\ Len(cal_fused) = 2
    /\ cal_fused[1].start <= now
    /\ cal_fused[2].start > now
    /\ CalTimers = {CalendarTimer(cal_fused[2])}
    /\ Len(cal_unsubs) = 1

\* C25: while the first refresh of setup is in flight, the published data is
\* the slot list of the stored snapshot when there is one, and nothing is
\* published when there is none.
C25_SnapshotPublishedBeforeFirstRefresh ==
    phase = "first_refresh" =>
        /\ inflight # None
        /\ store # None => data = Some(slots_from_json(store[1]))
        /\ store = None => data = None

\* a snapshot with slots is stored, its list is published, and the first
\* refresh has not returned yet
C25_Witness ==
    /\ phase = "first_refresh"
    /\ inflight # None
    /\ store # None
    /\ store[1] # <<>>
    /\ data # None
    /\ Len(data[1]) = Len(store[1])
    /\ cal_sched_at = None

\* C26: when the first refresh fails after a snapshot was published, setup
\* goes on (the entities are created next) and the snapshot's list stays the
\* published data.
C26_FailedFirstRefreshSurfacesSnapshot ==
    [][(/\ phase = "first_refresh"
        /\ data # None
        /\ inflight # None
        /\ inflight[1] \in FetchErrors
        /\ inflight' = None)
          => (phase' = "loaded" /\ data' = data)]_vars

(***************************************************************************)
(* Claims about the EMS link status                                        *)
(***************************************************************************)
\* the link status a published value carries: None when the key is absent
EmsStatusOf(d) == d[1].link_status

\* the status observed at the latest notification that carried data
EmsObserved == IF ems_truthy(e_data) THEN EmsStatusOf(e_data) ELSE e_prev

\* C27: at a notification that carries data the listener asks for a tariff
\* refresh exactly when the status observed at the latest earlier
\* notification with data was link_required and the status now is not, and
\* it records the status now; it asks for none at the first notification,
\* none while the status stays the same, none at a notification without data.
C27_EmsListenerRefreshesAfterLinking ==
    [][(e_check # None /\ e_check' = None) =>
          /\ ems_truthy(e_data') =>
                /\ e_requested'
                      <=> (/\ EmsObserved = Some("link_required")
                           /\ EmsStatusOf(e_data') # Some("link_required"))
                /\ e_prev' = EmsStatusOf(e_data')
          /\ ~ems_truthy(e_data') => (~e_requested' /\ e_prev' = e_prev)
          /\ e_data = None => ~e_requested'
          /\ (ems_truthy(e_data) /\ e_data' = e_data) => ~e_requested']_vars

\* linking was required at the notification before, now the status check
\* says linked, and the listener has asked for a tariff refresh
C27_Witness ==
    /\ e_check = None
    /\ e_requested
    /\ ems_truthy(e_data)
    /\ EmsStatusOf(e_data) = Some("linked")
    /\ e_prev = Some("linked")

\* what a status check that raises or gets a status other than 200 publishes
EmsErrorValue(answer) ==
    IF answer.kind = "raises"
    THEN EmsDict(Some(TRUE), None, Some(answer.err), None, None)
    ELSE EmsDict(Some(TRUE), Some(answer.status), Some(answer.body), None,
                 None)

EmsFailed(answer) == answer.kind = "raises" \/ answer.status # 200

C29_EmsLinkSensorOnWhenLinked ==
    e_is_on # None =>
        e_is_on.is_on
            = IF ~ems_truthy(e_data) THEN None
              ELSE Some(/\ e_data[1].error # Some(TRUE)
                        /\ EmsStatusOf(e_data) # Some("link_required"))

(***************************************************************************)
(* Claims about the hours-quantile sensor                                  *)
(***************************************************************************)
\* the slots of the list read that start today
TodayIdx ==
    {i \in 1..Len(DataOrEmpty(h_slots)) :
        DataOrEmpty(h_slots)[i].start \in 0..(HoursDayMinutes - 1)}

\* the hours of today in which a slot starts
TodayHours ==
    {DataOrEmpty(h_slots)[i].start \div HourMinutes : i \in TodayIdx}

SlotsOfHour(hr) ==
    {i \in TodayIdx : DataOrEmpty(h_slots)[i].start \div HourMinutes = hr}

\* the average price of the hour, as num / den
HourAvg(hr) ==
    [num |-> SumFn([i \in SlotsOfHour(hr) |->
                       DataOrEmpty(h_slots)[i].price_chf_per_kwh]),
     den |-> Cardinality(SlotsOfHour(hr))]

HourCheaper(g, hr) == HourAvg(g).num * HourAvg(hr).den
                          < HourAvg(hr).num * HourAvg(g).den

DistinctHourAverages ==
    \A g \in TodayHours : \A hr \in TodayHours :
        g # hr => (HourCheaper(g, hr) \/ HourCheaper(hr, g))

\* floor(n * q)
QuantileCount ==
    (Cardinality(TodayHours) * QuantileNum) \div QuantileDen

\* the floor(n * q) cheapest, or most expensive, hours of today
QuantileHours ==
    IF h_mode = "cheapest"
    THEN {hr \in TodayHours :
             Cardinality({g \in TodayHours : HourCheaper(g, hr)})
                 < QuantileCount}
    ELSE {hr \in TodayHours :
             Cardinality({g \in TodayHours : HourCheaper(hr, g)})
                 < QuantileCount}

\* C30: when today's hours have pairwise distinct average prices, is_on is
\* true exactly when the current hour is one of the floor(n * q) cheapest
\* (mode cheapest) or most expensive (mode most_expensive) of the n hours.
C30_QuantileFlagsFloorNQHours ==
    (/\ h_pc = "sensed"
     /\ DistinctHourAverages
     /\ (h_now \div HourMinutes) \in TodayHours) =>
        h_is_on = Some((h_now \div HourMinutes) \in QuantileHours)
(***************************************************************************)
(* Claims about the wake-ups of the window and daily-average sensors       *)
(***************************************************************************)
WakeTimers(owner) == {tm \in timers : tm.owner = owner}

\* a wake-up of the in-window sensor is due and has not run yet
InWakeDue ==
    \E tm \in timers :
        tm.owner \in {"in_window_boundary", "in_window_midnight"}
            /\ tm.at <= now

\* the start of the cheapest run of WakeWindow \div BucketMinutes buckets of
\* today that all have a price, if there is one: the earliest of the starts
\* with the least sum
TodayWindowStarts ==
    LET today == now \div DayMinutes
        n == WakeWindow \div BucketMinutes
        slots == IF data = None THEN <<>> ELSE data[1]
        priced(k) == {i \in 1..Len(slots) :
                         /\ slots[i].start < today * DayMinutes
                                                + (k + 1) * BucketMinutes
                         /\ slots[i].end > today * DayMinutes
                                                + k * BucketMinutes}
        price(k) == slots[MinOf(priced(k))].price_chf_per_kwh
        full == {k \in 0..(StatBuckets - n) :
                    \A j \in k..(k + n - 1) : priced(j) # {}}
        total(k) == SumFn([j \in k..(k + n - 1) |-> price(j)])
        least == {k \in full : \A k2 \in full : total(k) <= total(k2)}
    IN IF least = {} THEN {}
       ELSE {today * DayMinutes + MinOf(least) * BucketMinutes}

\* the instants at which a boundary wake-up has to be pending now
ExpectedBoundaries ==
    {b \in UNION {{s, s + WakeWindow} : s \in TodayWindowStarts} :
        /\ b > now
        /\ \A s \in TodayWindowStarts : now < s => b = s}

\* is_on as the window of today and now give it
ExpectedInWindow ==
    IF TodayWindowStarts = {} THEN None
    ELSE Some(\E s \in TodayWindowStarts : s <= now /\ now < s + WakeWindow)

\* the boundary wake-up is where it has to be and the state is current
InWindowSensorCurrent ==
    /\ {tm.at : tm \in WakeTimers("in_window_boundary")} = ExpectedBoundaries
    /\ in_state = ExpectedInWindow

\* C31: at the instant of a (re)scheduling of the in-window sensor the
\* pending boundary wake-up is at the window's start if now < start, at its
\* end if start <= now < end, and there is none otherwise; the same holds,
\* and the written state is is_on of the present instant (it was rewritten
\* at the start and at the end), whenever no wake-up of the sensor is due;
\* at most one boundary timer and one midnight timer are pending at any
\* time.
C31_InWindowWakeups ==
    phase = "running" =>
        /\ Cardinality(WakeTimers("in_window_boundary")) <= 1
        /\ Cardinality(WakeTimers("in_window_midnight")) <= 1
        /\ (in_sched_at = Some(now) \/ ~InWakeDue) => InWindowSensorCurrent

\* on the second day the sensor is on inside that day's window, which
\* does not start at midnight, and waits for the window's end
C31_Witness ==
    /\ phase = "running"
    /\ now >= DayMinutes
    /\ \E s \in TodayWindowStarts : s > DayMinutes /\ s < now
    /\ in_state = Some(TRUE)
    /\ \E s \in TodayWindowStarts :
          {tm.at : tm \in WakeTimers("in_window_boundary")} = {s + WakeWindow}
    /\ Cardinality(WakeTimers("in_window_midnight")) = 1

\* the daily average of today as the slots of the data give it: the
\* overlap-weighted mean of the prices, rounded
ExpectedDailyAverage ==
    LET today == now \div DayMinutes
        slots == IF data = None THEN <<>> ELSE data[1]
        ov(i) == Overlap(slots[i], today * DayMinutes,
                         (today + 1) * DayMinutes)
        idx == {i \in 1..Len(slots) : ov(i) > 0}
        num == SumFn([i \in idx |-> slots[i].price_chf_per_kwh * ov(i)])
        den == SumFn([i \in idx |-> ov(i)])
    IN IF idx = {} THEN None
       ELSE Some(round6([num |-> num, den |-> den]))

\* C32: from the moment the daily-average sensor is added exactly one
\* midnight wake-up is pending for it, for the local midnight that follows
\* (or, when due and not yet run, for the present instant); when it is not
\* due the written state is the present day's; a firing arms the wake-up
\* of the following local midnight, and a coordinator update leaves the
\* pending wake-up as it is.
C32_OneMidnightWakeup ==
    /\ [](phase = "running" =>
            /\ Cardinality(WakeTimers("daily_average_midnight")) = 1
            /\ \A tm \in WakeTimers("daily_average_midnight") :
                  /\ tm.at % DayMinutes = 0
                  /\ tm.at >= now
                  /\ tm.at <= now + DayMinutes
                  /\ tm.at > now => avg_state = ExpectedDailyAverage)
    /\ [][AvgMidnightFires =>
            {tm.at : tm \in WakeTimers("daily_average_midnight")}'
                = {now + DayMinutes}]_vars
    /\ [][WakeUpdate =>
            WakeTimers("daily_average_midnight")'
                = WakeTimers("daily_average_midnight")]_vars

\* after the first midnight the wake-up of the second midnight is pending
\* and the state is the second day's average
C32_Witness ==
    /\ phase = "running"
    /\ now = DayMinutes
    /\ {tm.at : tm \in WakeTimers("daily_average_midnight")}
           = {2 * DayMinutes}
    /\ avg_state # None
    /\ avg_state = ExpectedDailyAverage

(***************************************************************************)
(* Further claims about the lookups and about fuse_slots                   *)
(***************************************************************************)
\* what _schedule_next_boundary_update of the current-price sensor leaves
\* when it runs at p_now on the slot list p_slots with nothing pending
ArmedAtNow == schedule_next_boundary_update({}, None, Some(p_slots), p_now)

\* C35: a timestamp returned by _find_next_boundary is strictly later than
\* now, for every interval list (sorted or not) and every now; and the
\* current-price sensor, scheduling at now, arms a wake-up exactly when the
\* fused intervals of its data have a next boundary, at that boundary, which
\* is after now.
C35_NextBoundaryAfterNow ==
    p_pc = "found" =>
        /\ p_next # None => p_next[1] > p_now
        /\ p_intervals = p_fused =>
              /\ p_next # None <=> ArmedAtNow.unsub # None
              /\ p_next # None =>
                    /\ ArmedAtNow.timers = {BoundaryTimer(p_next[1])}
                    /\ ArmedAtNow.unsub = Some(BoundaryTimer(p_next[1]))
              /\ \A tm \in ArmedAtNow.timers : tm.at > p_now

\* now is inside an interval that ends at the next instant, and the sensor
\* arms its wake-up there
C35_Witness ==
    /\ p_pc = "found"
    /\ p_intervals = p_fused
    /\ p_cur # None
    /\ p_cur[1].start < p_now
    /\ p_next = Some(p_now + 1)
    /\ ArmedAtNow.timers = {BoundaryTimer(p_now + 1)}

\* the slots of the input that contain now
InputCovering == {i \in 1..Len(p_slots) : Covers(p_slots[i], p_now)}

\* C38: for a slot list sorted by start and non-overlapping and every
\* instant, _find_current_slot on the fused list returns an interval
\* exactly when some input slot has start <= now < end, and the interval's
\* price is that slot's price rounded to 6 decimals.
C38_FusionPreservesPrice ==
    (p_pc = "found" /\ p_intervals = p_fused /\ WellFormed(p_slots)) =>
        /\ p_cur # None <=> InputCovering # {}
        /\ \A i \in InputCovering :
              /\ p_cur # None
              /\ p_cur[1].price = norm(p_slots[i].price_chf_per_kwh)
              /\ Covers(p_cur[1], p_now)

\* now lies in the second slot of a merged run, whose price is not a
\* multiple of 1e-6, and a gap follows the run
C38_Witness ==
    /\ p_pc = "found"
    /\ p_intervals = p_fused
    /\ WellFormed(p_slots)
    /\ Len(p_slots) = 3
    /\ Len(p_fused) = 2
    /\ InputCovering = {2}
    /\ p_slots[2].price_chf_per_kwh # norm(p_slots[2].price_chf_per_kwh)
    /\ p_slots[1].price_chf_per_kwh # p_slots[2].price_chf_per_kwh
    /\ p_slots[3].start > p_slots[2].end
    /\ p_cur # None
    /\ p_cur[1].start = p_slots[1].start
    /\ p_cur[1].price = norm(p_slots[2].price_chf_per_kwh)

(***************************************************************************)
(* Claims about the calendar's lookups                                     *)
(***************************************************************************)
\* the events that overlap the queried range
Overlapping ==
    {i \in 1..Len(c_events) :
        /\ c_events[i].end > c_range[1].start_date
        /\ c_events[i].start < c_range[1].end_date}

\* C34: async_get_events returns exactly the events with
\* end > start_date and start < end_date, each once, in ascending order of
\* start; an event that ends at start_date or starts at end_date is left
\* out.
C34_GetEventsHalfOpenRange ==
    c_pc = "listed" =>
        /\ {c_out[j] : j \in 1..Len(c_out)}
              = {c_events[i] : i \in Overlapping}
        /\ Len(c_out) = Cardinality(Overlapping)
        /\ \A j \in 1..(Len(c_out) - 1) : c_out[j].start <= c_out[j + 1].start
        /\ \A i \in 1..Len(c_events) :
              (c_events[i].end = c_range[1].start_date
                  \/ c_events[i].start = c_range[1].end_date)
                 => \A j \in 1..Len(c_out) : c_out[j] # c_events[i]

\* of three events the one inside the range is returned; the one that ends
\* at start_date and the one that starts at end_date are not
C34_Witness ==
    /\ c_pc = "listed"
    /\ Len(c_events) = 3
    /\ c_events[1].end = c_range[1].start_date
    /\ c_events[3].start = c_range[1].end_date
    /\ c_out = <<c_events[2]>>

\* the events that contain now, and those that start after it
Containing == {i \in 1..Len(c_events) : Covers(c_events[i], c_now)}

Upcoming == {i \in 1..Len(c_events) : c_events[i].start > c_now}

\* C39: the event property is an event that contains now when there is one,
\* otherwise the event with the earliest start after now, and None when
\* neither exists.
C39_CurrentOrNextEvent ==
    c_pc = "current" =>
        /\ Containing # {} =>
              /\ c_event # None
              /\ \E i \in Containing : c_event[1] = c_events[i]
        /\ (Containing = {} /\ Upcoming # {}) =>
              /\ c_event # None
              /\ \E i \in Upcoming : c_event[1] = c_events[i]
              /\ \A i \in Upcoming : c_event[1].start <= c_events[i].start
        /\ (Containing = {} /\ Upcoming = {}) => c_event = None

\* now lies in the gap after an event that has ended, and the earlier of
\* the two events to come is returned
C39_Witness ==
    /\ c_pc = "current"
    /\ Len(c_events) = 3
    /\ c_events[1].end <= c_now
    /\ Containing = {}
    /\ Upcoming = {2, 3}
    /\ c_event = Some(c_events[2])

(***************************************************************************)
(* Further claims about the calendar's events and the snapshot             *)
(***************************************************************************)
\* C36: the tariff_start event fired for a fused interval carries the
\* interval's start, end and price as they were when the callback was
\* scheduled.
C36_TariffStartDescribesInterval ==
    [][CalendarCallbackFires =>
          \E tm \in timers :
              /\ tm.owner = "calendar"
              /\ tm.at <= now
              /\ timers' = timers \ {tm}
              /\ bus' = Some([type |-> "tariff_start",
                              start |-> tm.start,
                              end |-> tm.end,
                              price_chf_per_kwh |-> tm.price])]_vars

\* C37 as stated: whenever a slot list is published, the persisted
\* snapshot is that list.
C37_SnapshotEqualsPublished ==
    data # None => store = Some(slots_to_json(data[1]))

\* C37: a refresh whose fetch succeeded saves the fetched list and then
\* publishes it, so the persisted snapshot equals every published list
\* that was fetched or loaded; the empty list that the OAuth coordinator
\* publishes on HTTP 400 is not saved, and the snapshot then stays what it
\* was.
C37_FetchedListSavedBeforePublished ==
    /\ [](data # None =>
            \/ store = Some(slots_to_json(data[1]))
            \/ auth_type = "oauth" /\ data[1] = <<>>)
    /\ [][(inflight = Some("ok") /\ inflight' = None) =>
            /\ data' # None
            /\ store' = Some(slots_to_json(data'[1]))]_vars
    /\ [][(inflight = Some("http_400") /\ inflight' = None
             /\ auth_type = "oauth") =>
            /\ data' = Some(<<>>)
            /\ store' = store]_vars

\* after the entities were added a refresh has fetched, saved and published
\* a list with slots that differs from the first snapshot loaded
C37_Witness ==
    /\ phase = "running"
    /\ inflight = None
    /\ last_update_success
    /\ data # None
    /\ data[1] # <<>>
    /\ store = Some(slots_to_json(data[1]))
    /\ last_good = data
    /\ cal_sched_at = Some(now)
    /\ now >= 1

(***************************************************************************)
(* Claims about the config flow                                            *)
(***************************************************************************)
\* the status check answered 200 without an error, with link_status
\* link_required and a linking URL
LinkingRequiredWithUrl ==
    /\ f_answer[1].kind = "response"
    /\ f_answer[1].status = 200
    /\ f_answer[1].body.error = None
    /\ f_answer[1].body.link_status = Some("link_required")
    /\ f_answer[1].body.linking_process_redirect_uri \notin {None, Some("")}

\* the step that ends is the completion step: it aborts when an OAuth entry
\* exists and otherwise creates the entry with the generated id
EndsInCompletion ==
    /\ f_configured => (f_step' = "abort" /\ f_entry' = None)
    /\ ~f_configured =>
          /\ f_step' = "create_entry"
          /\ f_entry' # None
          /\ f_entry'[1].auth_type = "oauth"
          /\ f_ems_instance_id' # None
          /\ f_entry'[1].ems_instance_id = f_ems_instance_id'[1]

\* C33: from async_oauth_create_entry the flow shows the linking form
\* exactly when the status check answers link_required with a linking URL,
\* and otherwise (the check raises, returns an error, reports another
\* status, gives no URL) goes straight to the completion step; submitting
\* the form goes to the completion step; the completion step creates an
\* entry with auth_type oauth and the generated ems_instance_id, or aborts
\* because an OAuth entry exists.
C33_EmsLinkingNeverBlocksSetup ==
    /\ [](f_step = "ems_linking" =>
            LinkingRequiredWithUrl /\ f_linking_url # None /\ f_entry = None)
    /\ [](f_step = "create_entry" =>
            /\ f_entry # None
            /\ f_entry[1].auth_type = "oauth"
            /\ f_entry[1].ems_instance_id \in FlowIds
            /\ f_ems_instance_id = Some(f_entry[1].ems_instance_id))
    /\ [][(f_step = "authorized" /\ f_step' # "authorized") =>
            IF LinkingRequiredWithUrl
            THEN /\ f_step' = "ems_linking"
                 /\ f_linking_url'
                       = f_answer[1].body.linking_process_redirect_uri
            ELSE EndsInCompletion]_vars
    /\ [][(f_step = "ems_linking" /\ f_step' # "ems_linking") =>
            EndsInCompletion]_vars

\* the form was shown and submitted, and the entry is created
C33_Witness ==
    /\ f_step = "create_entry"
    /\ f_linking_url # None
    /\ f_entry # None
    /\ f_entry[1].auth_type = "oauth"
    /\ f_ems_instance_id = Some(f_entry[1].ems_instance_id)

====
